---------------------------- MODULE Spec2Model ----------------------------
(***************************************************************************)
(* The options-strategy pricing pipeline of OTCBot (src/MarkPx.py):        *)
(*   parse_leg_string                 the leg parser,                      *)
(*   get_instrument_mark_price_async  the quote fetcher,                   *)
(*   mark_px                          the strategy pricer.                 *)
(*                                                                         *)
(* Python strings are sequences of one-character strings, so that strip,   *)
(* upper, split, startswith, isdigit, count, join and int are computed     *)
(* character by character as the interpreter computes them.  JSON values   *)
(* are records [t, v] with t in {"null", "num", "str"}.                    *)
(***************************************************************************)
EXTENDS Integers, Sequences, FiniteSets, TLC

VARIABLES
    \* ---- one call of mark_px -------------------------------------------
    strategy_legs_input,  \* the argument: a list of leg strings
    pc,                   \* where the call stands
    strategy_legs,        \* the legs parsed so far
    n_parsed,             \* calls of parse_leg_string made by this call
    session,              \* the aiohttp.ClientSession: "none", "open", "closed"
    tasks,                \* per leg: "pending", "running", "done"
    results,              \* per leg: the triple its fetch returned
    n_fetches,            \* session.get calls issued by this call
    completed,            \* the fetches that ended, in the order they ended
    ret,                  \* what the call returned (or raised)
    \* ---- one call of parse_leg_string on its own ------------------------
    leg_string,           \* the argument
    parsed_leg,           \* the value returned
    \* ---- one call of get_instrument_mark_price_async on its own ---------
    instrument_name,      \* the argument
    response,             \* how the HTTP exchange behaves
    quote,                \* the value returned
    \* ---- several calls of mark_px on one event loop --------------------
    requests,             \* per call: its argument, its locals, what it returned
    \* ---- the unanswered-message monitor ---------------------------------
    now,                  \* the clock, in seconds
    bot_data,             \* context.bot_data: allowed_user_ids and monitor_ids
    chat_data,            \* context.chat_data of every chat
    job_queue,            \* the jobs scheduled and not yet run
    running,              \* the alert callbacks that started and have not ended
    alerts,               \* the alerts sent
    messages,             \* the messages received, in order
    \* ---- send_twilio_call on the threads of the executor ----------------
    LAST_CALL_TIMESTAMPS, \* per number: when it was last called, or None
    threads,              \* per thread: where its call of send_twilio_call stands
    calls,                \* the phone calls placed
    invocations,          \* calls of send_twilio_call made so far
    \* ---- the /px conversation of one user in one chat -------------------
    conversations,        \* the state of each ConversationHandler
    replies,              \* what the handlers sent to the chat
    px_calls,             \* the calls of mark_px: argument and state then
    n_updates,            \* updates handled so far
    \* ---- the /send conversations ---------------------------------------
    ALLOWED_USER_IDS,     \* the global list of OTCBot.py
    user_data,            \* context.user_data of every user
    send_conversations,   \* per (chat id, user id): state of send_conv_handler
    last_handled          \* what the handler of the last update did

vars == <<strategy_legs_input, pc, strategy_legs, n_parsed, session, tasks,
          results, n_fetches, completed, ret, leg_string, parsed_leg, instrument_name,
          response, quote, requests, now, bot_data, chat_data, job_queue,
          running, alerts, messages, LAST_CALL_TIMESTAMPS, threads, calls,
          invocations, conversations, replies, px_calls, n_updates,
          ALLOWED_USER_IDS, user_data, send_conversations,
          last_handled>>

pricer_vars == <<strategy_legs_input, pc, strategy_legs, n_parsed, session,
                 tasks, results, n_fetches, completed, ret>>
parser_vars == <<leg_string, parsed_leg>>
fetcher_vars == <<instrument_name, response, quote>>
concurrent_vars == <<requests>>
monitor_vars == <<now, bot_data, chat_data, job_queue, running, alerts, messages>>
notifier_vars == <<LAST_CALL_TIMESTAMPS, threads, calls, invocations>>
conversation_vars == <<conversations, replies, px_calls, n_updates>>
send_vars == <<ALLOWED_USER_IDS, user_data, send_conversations, last_handled>>
bot_vars == <<monitor_vars, notifier_vars, conversation_vars, send_vars>>

-----------------------------------------------------------------------------
(* Bounds of the model.                                                    *)

MaxLegs == 2    \* longest list of leg strings handed to mark_px
MaxPrice == 2   \* mark prices returned by the API are 0..MaxPrice

-----------------------------------------------------------------------------
(* Python str operations.                                                  *)

LowerCase == <<"a","b","c","d","e","f","g","h","i","j","k","l","m",
               "n","o","p","q","r","s","t","u","v","w","x","y","z">>
UpperCase == <<"A","B","C","D","E","F","G","H","I","J","K","L","M",
               "N","O","P","Q","R","S","T","U","V","W","X","Y","Z">>
DigitChars == <<"0","1","2","3","4","5","6","7","8","9">>
Digits == {DigitChars[i] : i \in 1..10}
Whitespace == {" ", "\t"}

IndexOf(seq, c) == CHOOSE i \in 1..Len(seq) : seq[i] = c

\* str.upper() on one character
UpperChar(c) ==
    IF \E i \in 1..26 : LowerCase[i] = c
    THEN UpperCase[IndexOf(LowerCase, c)]
    ELSE c

\* str.lower() on one character (used only to build inputs)
LowerChar(c) ==
    IF \E i \in 1..26 : UpperCase[i] = c
    THEN LowerCase[IndexOf(UpperCase, c)]
    ELSE c

\* str.upper()
Upper(s) == [i \in 1..Len(s) |-> UpperChar(s[i])]

Lower(s) == [i \in 1..Len(s) |-> LowerChar(s[i])]

RECURSIVE LStrip(_)
LStrip(s) ==
    IF s # <<>> /\ Head(s) \in Whitespace THEN LStrip(Tail(s)) ELSE s

RECURSIVE RStrip(_)
RStrip(s) ==
    IF s # <<>> /\ s[Len(s)] \in Whitespace
    THEN RStrip(SubSeq(s, 1, Len(s) - 1))
    ELSE s

\* str.strip()
Strip(s) == RStrip(LStrip(s))

\* str.split() with no argument: runs of whitespace separate the tokens and
\* no empty token is produced.  cur is the token being read, acc the tokens read.
RECURSIVE SplitWs(_, _, _)
SplitWs(s, cur, acc) ==
    IF s = <<>>
    THEN IF cur = <<>> THEN acc ELSE Append(acc, cur)
    ELSE IF Head(s) \in Whitespace
         THEN SplitWs(Tail(s), <<>>, IF cur = <<>> THEN acc ELSE Append(acc, cur))
         ELSE SplitWs(Tail(s), Append(cur, Head(s)), acc)

Split(s) == SplitWs(s, <<>>, <<>>)

\* str.split(d) with a one-character separator: empty fields are kept.
RECURSIVE SplitChar(_, _, _, _)
SplitChar(s, d, cur, acc) ==
    IF s = <<>>
    THEN Append(acc, cur)
    ELSE IF Head(s) = d
         THEN SplitChar(Tail(s), d, <<>>, Append(acc, cur))
         ELSE SplitChar(Tail(s), d, Append(cur, Head(s)), acc)

SplitOn(s, d) == SplitChar(s, d, <<>>, <<>>)

\* d.join(parts)
RECURSIVE Join(_, _)
Join(parts, d) ==
    IF parts = <<>> THEN <<>>
    ELSE IF Len(parts) = 1 THEN parts[1]
    ELSE parts[1] \o <<d>> \o Join(Tail(parts), d)

\* str.startswith(p)
StartsWith(s, p) == Len(s) >= Len(p) /\ SubSeq(s, 1, Len(p)) = p

\* str.isdigit() (ASCII inputs)
IsDigit(s) == s # <<>> /\ \A i \in 1..Len(s) : s[i] \in Digits

\* str.count(c)
Count(s, c) == Cardinality({i \in 1..Len(s) : s[i] = c})

DigitVal(c) == IndexOf(DigitChars, c) - 1

\* The value of a run of digits in which single underscores may separate digits.
RECURSIVE DigitsValue(_, _)
DigitsValue(s, acc) ==
    IF s = <<>> THEN acc
    ELSE IF Head(s) = "_" THEN DigitsValue(Tail(s), acc)
    ELSE DigitsValue(Tail(s), 10 * acc + DigitVal(Head(s)))

\* The digit part int() accepts: digits, with single underscores between digits.
IntBody(s) ==
    /\ s # <<>>
    /\ \A i \in 1..Len(s) : s[i] \in Digits \cup {"_"}
    /\ s[1] # "_"
    /\ s[Len(s)] # "_"
    /\ \A i \in 1..(Len(s) - 1) : ~(s[i] = "_" /\ s[i + 1] = "_")

\* int(s): an optional sign, then the digit part; anything else is a ValueError.
PyInt(s) ==
    LET signed == s # <<>> /\ Head(s) \in {"+", "-"}
        body == IF signed THEN Tail(s) ELSE s
    IN  IF IntBody(body)
        THEN [ok |-> TRUE,
              v |-> IF signed /\ Head(s) = "-"
                    THEN 0 - DigitsValue(body, 0)
                    ELSE DigitsValue(body, 0)]
        ELSE [ok |-> FALSE, v |-> 0]

\* str(n) for an integer n >= 0
RECURSIVE NatStr(_)
NatStr(n) ==
    IF n < 10 THEN <<DigitChars[n + 1]>>
    ELSE NatStr(n \div 10) \o <<DigitChars[(n % 10) + 1]>>

-----------------------------------------------------------------------------
(* parse_leg_string (src/MarkPx.py, lines 38-116).                         *)

\* Python's None, as the value parse_leg_string returns on a format error.
NoLeg == [none |-> TRUE, instrument |-> <<>>, side |-> <<>>, quantity |-> 0]

Leg(instrument, side, quantity) ==
    [none |-> FALSE, instrument |-> instrument, side |-> side, quantity |-> quantity]

Buy == <<"b","u","y">>
Sell == <<"s","e","l","l">>

BTC_ == <<"B","T","C","-">>
ETH_ == <<"E","T","H","-">>
USDC_ == <<"U","S","D","C","-">>

\* JoinInstrument joining the tokens of a spaced instrument with '_'
JoinInstrument_Underscore(instrument_parts) ==
    IF Len(instrument_parts) = 1
    THEN [ok |-> TRUE, instrument |-> instrument_parts[1]]
    ELSE IF Len(instrument_parts) \in {3, 4}
    THEN [ok |-> TRUE, instrument |-> Join(instrument_parts, "_")]
    ELSE [ok |-> FALSE, instrument |-> <<>>]

\* Lines 61-73: the instrument from the tokens after the quantity token.
JoinInstrument(instrument_parts) ==
    IF Len(instrument_parts) = 1
    THEN [ok |-> TRUE, instrument |-> instrument_parts[1]]
    ELSE IF Len(instrument_parts) = 4
    THEN [ok |-> TRUE, instrument |-> Join(instrument_parts, "-")]
    ELSE IF Len(instrument_parts) = 3
    THEN [ok |-> TRUE, instrument |-> Join(instrument_parts, "-")]
    ELSE [ok |-> FALSE, instrument |-> <<>>]

\* Lines 75-84: a quantity token without a sign becomes a buy when it is all
\* digits and the instrument holds two hyphens or more.
FixSign(qty_str, instrument) ==
    IF ~(StartsWith(qty_str, <<"+">>) \/ StartsWith(qty_str, <<"-">>))
    THEN IF IsDigit(qty_str) /\ Count(instrument, "-") >= 2
         THEN [ok |-> TRUE, qty_str |-> <<"+">> \o qty_str]
         ELSE [ok |-> FALSE, qty_str |-> qty_str]
    ELSE [ok |-> TRUE, qty_str |-> qty_str]

\* DefaultCurrency knowing BTC and ETH only
DefaultCurrency_NoUsdc(instrument) ==
    IF ~(StartsWith(instrument, BTC_) \/ StartsWith(instrument, ETH_))
    THEN BTC_ \o instrument
    ELSE instrument

\* Lines 86-90: BTC is the currency when none is given.
DefaultCurrency(instrument) ==
    IF ~(StartsWith(instrument, BTC_) \/ StartsWith(instrument, ETH_)
         \/ StartsWith(instrument, USDC_))
    THEN BTC_ \o instrument
    ELSE instrument

\* ExpandStrike applied whatever the currency
ExpandStrike_AnyCurrency(instrument) ==
    LET parts == SplitOn(instrument, "-")
    IN  IF Len(parts) = 4 /\ IsDigit(parts[3]) /\ Len(parts[3]) <= 3
        THEN Join([parts EXCEPT ![3] = parts[3] \o <<"0","0","0">>], "-")
        ELSE instrument

\* Lines 92-105: an abbreviated BTC strike gets its three zeroes.
ExpandStrike(instrument) ==
    IF StartsWith(instrument, BTC_)
    THEN LET parts == SplitOn(instrument, "-")
         IN  IF Len(parts) = 4
             THEN LET strike_str == parts[3]
                  IN  IF IsDigit(strike_str) /\ Len(strike_str) <= 3
                      THEN Join([parts EXCEPT ![3] = strike_str \o <<"0","0","0">>], "-")
                      ELSE instrument
             ELSE instrument
    ELSE instrument

\* FinalParse turning away negative quantities only
FinalParse_AllowZero(qty_str, instrument) ==
    LET side == IF StartsWith(qty_str, <<"+">>) THEN Buy ELSE Sell
        quantity == PyInt(Tail(qty_str))
    IN  IF ~quantity.ok THEN NoLeg
        ELSE IF quantity.v < 0 THEN NoLeg
        ELSE Leg(Upper(instrument), side, quantity.v)

\* Lines 107-116: side and quantity from the signed quantity token.
FinalParse(qty_str, instrument) ==
    LET side == IF StartsWith(qty_str, <<"+">>) THEN Buy ELSE Sell
        quantity == PyInt(Tail(qty_str))
    IN  IF ~quantity.ok THEN NoLeg
        ELSE IF quantity.v <= 0 THEN NoLeg
        ELSE Leg(Upper(instrument), side, quantity.v)

\* parse_leg_string counting the hyphens after the currency default
parse_leg_string_DefaultFirst(s) ==
    LET parts == Split(Upper(Strip(s)))
    IN  IF Len(parts) < 2 THEN NoLeg
        ELSE LET qty_str == parts[1]
                 joined == JoinInstrument(Tail(parts))
             IN  IF ~joined.ok THEN NoLeg
                 ELSE LET signed == FixSign(qty_str, DefaultCurrency(joined.instrument))
                      IN  IF ~signed.ok THEN NoLeg
                          ELSE FinalParse(signed.qty_str,
                                   ExpandStrike(DefaultCurrency(joined.instrument)))

\* parse_leg_string reading the string as typed, without upper()
parse_leg_string_CaseSensitive(s) ==
    LET parts == Split(Strip(s))
    IN  IF Len(parts) < 2 THEN NoLeg
        ELSE LET qty_str == parts[1]
                 joined == JoinInstrument(Tail(parts))
             IN  IF ~joined.ok THEN NoLeg
                 ELSE LET signed == FixSign(qty_str, joined.instrument)
                      IN  IF ~signed.ok THEN NoLeg
                          ELSE FinalParse(signed.qty_str,
                                   ExpandStrike(DefaultCurrency(joined.instrument)))

parse_leg_string(s) ==
    LET parts == Split(Upper(Strip(s)))
    IN  IF Len(parts) < 2 THEN NoLeg
        ELSE LET qty_str == parts[1]
                 joined == JoinInstrument(Tail(parts))
             IN  IF ~joined.ok THEN NoLeg
                 ELSE LET signed == FixSign(qty_str, joined.instrument)
                      IN  IF ~signed.ok THEN NoLeg
                          ELSE FinalParse(signed.qty_str,
                                   ExpandStrike(DefaultCurrency(joined.instrument)))

-----------------------------------------------------------------------------
(* get_instrument_mark_price_async (src/MarkPx.py, lines 11-36).           *)

\* JSON values as Python sees them.  Null is Python's None.
Null == [t |-> "null", v |-> 0]
Num(n) == [t |-> "num", v |-> n]
Str == [t |-> "str", v |-> 0]          \* a JSON string: not a number
Absent == [t |-> "absent", v |-> 0]    \* the key is not in the object

IndexPrices == {95123}

MarkValues == {Null, Str} \cup {Num(n) : n \in 0..MaxPrice}
IndexValues == {Absent, Null, Str} \cup {Num(n) : n \in IndexPrices}

\* How one HTTP exchange can go:
\*   transport_error  session.get raises (connection refused, DNS, ...)
\*   timeout          the 10 second timeout expires
\*   http_error       raise_for_status raises on a non-2xx status
\*   bad_json         response.json() raises
\*   not_object       the payload is JSON but no object ('result' in data raises)
\*   no_result        the object has no 'result'
\*   bad_result       'result' is no object (line 27 or 28 raises TypeError)
\*   no_mark_price    'result' has no 'mark_price'
\*   ok               'result' has 'mark_price' (mark) and maybe 'index_price' (index)
FailureKinds == {"transport_error", "timeout", "http_error", "bad_json",
                 "not_object", "no_result", "bad_result", "no_mark_price"}

Responses ==
    {[kind |-> k, mark |-> Absent, index |-> Absent] : k \in FailureKinds}
    \cup {[kind |-> "ok", mark |-> m, index |-> x] : m \in MarkValues, x \in IndexValues}

\* The exchanges the fetches of a mark_px call are given: a timeout, every mark
\* price with an index price, and every index price with the mark price 1.
PricerResponses ==
    {r \in Responses :
        \/ r.kind = "timeout"
        \/ r.kind = "ok" /\ (r.index.t = "num" \/ r.mark = Num(1))}

Quote(instrument, mark_price, index_price) ==
    [instrument |-> instrument, mark_price |-> mark_price, index_price |-> index_price]

\* dict.get(key): None when the key is absent
DictGet(value) == IF value = Absent THEN Null ELSE value

\* The fetcher returning (None, None, None) when the exchange fails
get_instrument_mark_price_async_NoName(instrument, resp) ==
    IF resp.kind = "ok"
    THEN Quote(instrument, resp.mark, DictGet(resp.index))
    ELSE Quote(<<>>, Null, Null)

get_instrument_mark_price_async(instrument, resp) ==
    IF resp.kind \in {"transport_error", "timeout", "http_error", "bad_json",
                     "not_object", "bad_result"}
    THEN Quote(instrument, Null, Null)                       \* lines 34-36
    ELSE IF resp.kind = "ok"
    THEN Quote(instrument, resp.mark, DictGet(resp.index))   \* lines 27-30
    ELSE Quote(instrument, Null, Null)                       \* lines 31-33

-----------------------------------------------------------------------------
(* Number formatting of the report (src/MarkPx.py, lines 187, 200, 201).   *)
(* Prices are integers in the model, so '.4f' prints the integer and four  *)
(* zeroes, and ',.0f' prints the integer with its thousands grouped.       *)

\* f"{x:.4f}"
Fmt4f(x) ==
    (IF x < 0 THEN <<"-">> ELSE <<>>)
    \o NatStr(IF x < 0 THEN 0 - x ELSE x) \o <<".","0","0","0","0">>

\* the digits d of a number, a comma before every group of three from the right
RECURSIVE Group3(_)
Group3(d) ==
    IF Len(d) <= 3 THEN d
    ELSE Group3(SubSeq(d, 1, Len(d) - 3)) \o <<",">> \o SubSeq(d, Len(d) - 2, Len(d))

\* f"{x:,.0f}"
FmtGrouped(x) ==
    (IF x < 0 THEN <<"-">> ELSE <<>>) \o Group3(NatStr(IF x < 0 THEN 0 - x ELSE x))

\* f"{s:<w}"
RECURSIVE PadRight(_, _)
PadRight(s, w) == IF Len(s) >= w THEN s ELSE PadRight(Append(s, " "), w)

NA == <<"N","/","A">>

-----------------------------------------------------------------------------
(* mark_px (src/MarkPx.py, lines 118-206): the values it returns.          *)

NoReturn == [kind |-> "none"]

\* f"Error: Invalid leg format: '{leg_str}'"
InvalidLegError(leg_str) ==
    [kind |-> "error", text |-> "Error: Invalid leg format: '{leg_str}'",
     args |-> <<leg_str>>]

NoLegsError ==
    [kind |-> "error", text |-> "Error: No valid strategy legs provided.",
     args |-> <<>>]

\* f"Error: All legs must have the same underlying currency. Found '...' and '...'."
MixedCurrencyError(first_underlying, current_underlying) ==
    [kind |-> "error",
     text |-> "Error: All legs must have the same underlying currency. Found '{first_underlying}' and '{current_underlying}'.",
     args |-> <<first_underlying, current_underlying>>]

\* An exception leaving mark_px
Raised(exc) == [kind |-> "raised", exc |-> exc]

\* Underlying with the field index off by one (the expiry, not the currency)
Underlying_Expiry(leg) == SplitOn(leg.instrument, "-")[2]

\* Line 149: the underlying of a leg
Underlying(leg) == SplitOn(leg.instrument, "-")[1]

\* Lines 146-155: the first leg, in order, whose underlying differs from the
\* first leg's; 0 when there is none.  (The underlying is never empty, so
\* 'not first_underlying' holds for the first leg only.)
FirstMismatch(legs) ==
    IF \E i \in 1..Len(legs) : Underlying(legs[i]) # Underlying(legs[1])
    THEN CHOOSE i \in 1..Len(legs) :
            /\ Underlying(legs[i]) # Underlying(legs[1])
            /\ \A j \in 1..(i - 1) : Underlying(legs[j]) = Underlying(legs[1])
    ELSE 0

\* Lines 164-167 and 179: price_map.get(instrument), price_map being filled
\* from the results in order, a later result replacing an earlier one of the
\* same instrument.
PriceMapGet(res, instrument) ==
    LET hits == {i \in 1..Len(res) : res[i].instrument = instrument}
    IN  IF hits = {} THEN Null
        ELSE res[CHOOSE i \in hits : \A j \in hits : j <= i].mark_price

\* The index price taken from the last result
IndexPrice_LastResult(res) == res[Len(res)].index_price

\* IndexPrice scanning all results for the first index price there is
IndexPrice_FirstNonNull(res) ==
    IF \E i \in 1..Len(res) : res[i].index_price # Null
    THEN res[CHOOSE i \in 1..Len(res) :
                /\ res[i].index_price # Null
                /\ \A j \in 1..(i - 1) : res[j].index_price = Null].index_price
    ELSE Null

\* Lines 165-170: the index price is the first result's
IndexPrice(res) ==
    IF res[1].index_price # Null THEN res[1].index_price ELSE Null

\* Line 187 and line 191: one line of the report
PricedLine(leg, mark_price) ==
    [side |-> PadRight(Upper(leg.side), 4), quantity |-> leg.quantity,
     instrument |-> PadRight(leg.instrument, 22),
     error |-> FALSE, price |-> Fmt4f(mark_price)]

ErrorLine(leg) ==
    [side |-> PadRight(Upper(leg.side), 4), quantity |-> leg.quantity,
     instrument |-> PadRight(leg.instrument, 22),
     error |-> TRUE, price |-> <<>>]

\* LegPrice without the negation of a sell
LegPrice_NoNegation(leg, mark_price) == mark_price * leg.quantity

\* Lines 181-186: the signed price of one leg
LegPrice(leg, mark_price) ==
    IF leg.side = Sell
    THEN 0 - (mark_price * leg.quantity)
    ELSE mark_price * leg.quantity

\* Lines 172-191: the loop over the legs from leg k on.  acc holds
\* total_strategy_mark_price, price_details, all_legs_fetched_successfully and
\* whether an exception was raised.  A mark price that is no number makes line
\* 184 (unary minus) or line 186 (float + str) raise TypeError.
RECURSIVE PriceLegs(_, _, _, _)
PriceLegs(legs, res, k, acc) ==
    IF k > Len(legs) \/ acc.raised THEN acc
    ELSE LET leg == legs[k]
             mark_price == PriceMapGet(res, leg.instrument)
         IN  IF mark_price # Null
             THEN IF mark_price.t = "num"
                  THEN PriceLegs(legs, res, k + 1,
                          [acc EXCEPT !.total = acc.total + LegPrice(leg, mark_price.v),
                                      !.price_details =
                                          Append(acc.price_details, PricedLine(leg, mark_price.v))])
                  ELSE [acc EXCEPT !.raised = TRUE]
             ELSE PriceLegs(legs, res, k + 1,
                     [acc EXCEPT !.all_legs_fetched_successfully = FALSE,
                                 !.price_details = Append(acc.price_details, ErrorLine(leg))])

\* Lines 193-206: the report
Report(price_details, net, index_ref) ==
    [kind |-> "report", header |-> "Combo Mark Price per unit",
     price_details |-> price_details, net |-> net, index_ref |-> index_ref]

\* "  Net Combo Mark: {total:.4f} {first_underlying}"
NetLine(total, first_underlying) ==
    [numeric |-> TRUE, amount |-> Fmt4f(total), currency |-> first_underlying,
     text |-> "  Net Combo Mark: {total:.4f} {first_underlying}"]

NetNotAvailable ==
    [numeric |-> FALSE, amount |-> <<>>, currency |-> <<>>,
     text |-> "  Net Combo Mark: N/A (Could not fetch price for all legs)"]

\* "  Index Ref: ${index_price_str}"
IndexLine(index_price_str) == [shown |-> TRUE, value |-> index_price_str]
NoIndexLine == [shown |-> FALSE, value |-> <<>>]

\* ProcessResults printing the net total of the legs that were priced even
\* when a leg failed
ProcessResults_NetOfPriced(legs, res) ==
    LET acc == PriceLegs(legs, res, 1,
                   [total |-> 0, price_details |-> <<>>,
                    all_legs_fetched_successfully |-> TRUE, raised |-> FALSE])
    IN  IF acc.raised THEN Raised("TypeError")
        ELSE Report(acc.price_details,
                    NetLine(acc.total, Underlying(legs[1])), IndexLine(NA))

\* Lines 164-206: from the gathered results to the value returned
ProcessResults(legs, res) ==
    LET index_price == IndexPrice(res)
        acc == PriceLegs(legs, res, 1,
                   [total |-> 0, price_details |-> <<>>,
                    all_legs_fetched_successfully |-> TRUE, raised |-> FALSE])
    IN  IF acc.raised THEN Raised("TypeError")
        ELSE IF acc.all_legs_fetched_successfully
        THEN IF index_price = Null
             THEN Report(acc.price_details,
                         NetLine(acc.total, Underlying(legs[1])), IndexLine(NA))
             ELSE IF index_price.t = "num"
             THEN Report(acc.price_details,
                         NetLine(acc.total, Underlying(legs[1])),
                         IndexLine(FmtGrouped(index_price.v)))
             ELSE Raised("ValueError")      \* line 200: ',.0f' of a str
        ELSE Report(acc.price_details, NetNotAvailable, NoIndexLine)

-----------------------------------------------------------------------------
(* The inputs of the model.                                                *)

\* tokens
Expiry == <<"2","6","S","E","P","2","5">>
FullPut == <<"B","T","C","-","2","6","S","E","P","2","5","-","9","5","0","0","0","-","P">>
FullCall == <<"B","T","C","-","2","6","S","E","P","2","5","-","1","3","0","0","0","0","-","C">>
EthCall == <<"E","T","H","-","2","6","S","E","P","2","5","-","4","0","0","0","-","C">>
UsdcPut == <<"U","S","D","C","-","2","6","S","E","P","2","5","-","9","5","-","P">>

\* the words of a leg string, one space between them
JoinWords(words) == Join(words, " ")

\* The leg strings handed to mark_px: a buy and a sell of one instrument, a
\* second BTC instrument typed as in the example of line 214 (spaced out,
\* currency omitted, strike abbreviated), an ETH and a USDC instrument, and two
\* strings that do not parse (quantity zero; no instrument).
PricerLegStrings ==
    { JoinWords(<<<<"+","1">>, FullPut>>),
      JoinWords(<<<<"-","2">>, FullPut>>),
      JoinWords(<<<<"-","2">>, Expiry, <<"1","3","0">>, <<"C">>>>),
      JoinWords(<<<<"-","1">>, EthCall>>),
      JoinWords(<<<<"+","1">>, UsdcPut>>),
      JoinWords(<<<<"+","0">>, FullPut>>),
      <<"+","1">> }

RECURSIVE SeqsUpTo(_, _)
SeqsUpTo(S, n) ==
    IF n = 0 THEN {<<>>}
    ELSE LET shorter == SeqsUpTo(S, n - 1)
         IN  shorter \cup {Append(q, x) : q \in {r \in shorter : Len(r) = n - 1}, x \in S}

\* The quantity tokens and the instrument tokens parse_leg_string is tried on.
QtyTokens ==
    { <<"+","1">>,
      <<"-","2">>,
      <<"1">>,
      <<"2">>,
      <<"0">>,
      <<"+","0">>,
      <<"-","0">>,
      <<"+","+","1">>,
      <<"-","+","2">>,
      <<"+","-","1">>,
      <<"+","1","_","0">>,
      <<"+">>,
      <<"X","1">>,
      <<"+","1","X">>,
      <<"+","1","2">> }

InstrumentTokens ==
    { <<>>,
      <<FullPut>>,
      <<EthCall>>,
      <<UsdcPut>>,
      <<<<"2","6","S","E","P","2","5","-","9","5","0","0","0","-","P">>>>,
      <<<<"2","6","S","E","P","2","5","-","9","5","-","P">>>>,
      <<<<"B","T">>>>,
      <<<<"9","5","0","0","0","-","P">>>>,
      <<<<"B","T","C","-","2","6","S","E","P","2","5","-","1","3","0","-","C">>>>,
      <<<<"B","T","C","-","2","6","S","E","P","2","5","-","-","P">>>>,
      <<<<"B","T","C","-","2","6","S","E","P","2","5","-","9","5">>>>,
      <<<<"B","T","C","-","2","6","S","E","P","2","5","-","9","5","-","P","-","X">>>>,
      <<<<"B","T","C","-","2","6","S","E","P","2","5","-","9","5","0","0","0">>>>,
      <<<<"B","T","C","-","2","6","S","E","P","2","5","-","1","0","0","0","-","P">>>>,
      <<<<"B","T","C","-","2","6","S","E","P","2","5","-","9","5","K","-","P">>>>,
      <<<<"B","T","C","-","-","9","5","-","P">>>>,
      <<<<"E","T","H","-","2","6","S","E","P","2","5","-","9","5","-","P">>>>,
      <<<<"B","T","C">>, Expiry, <<"9","5","0","0","0">>, <<"P">>>>,
      <<<<"E","T","H">>, Expiry, <<"4","0","0","0">>, <<"C">>>>,
      <<Expiry, <<"9","5">>, <<"P">>>>,
      <<Expiry, <<"P">>>>,
      <<<<"B","T","C">>, Expiry, <<"9","5","0","0","0">>, <<"P">>, <<"X">>>>,
      <<<<"B","T","C">>, Expiry, <<"9","5","0","0","0">>, <<"P">>, <<"X">>, <<"Y">>>> }

\* A leg string as typed: upper case with single spaces, or lower case with
\* blanks around it and a tab between two words.
Typed(words) ==
    { JoinWords(words),
      <<" ">> \o Lower(Join(words, "\t")) \o <<" ", " ">> }

\* Every quantity token with every instrument, typed both ways; the empty
\* string and a blank one.
ParserLegStrings ==
    UNION { Typed(<<q>> \o t) : q \in QtyTokens, t \in InstrumentTokens }
    \cup { <<>>, <<" ", "\t">> }

FetcherInstruments == {FullPut, FullCall, EthCall, <<"B","T","C","-","B","T">>}

-----------------------------------------------------------------------------
(* One call of mark_px.                                                    *)

Idle == "idle"

PricerInit ==
    /\ strategy_legs_input \in SeqsUpTo(PricerLegStrings, MaxLegs)
    /\ pc = "parse"
    /\ strategy_legs = <<>>
    /\ n_parsed = 0
    /\ session = "none"
    /\ tasks = <<>>
    /\ results = <<>>
    /\ n_fetches = 0
    /\ completed = <<>>
    /\ ret = NoReturn

PricerIdle ==
    /\ strategy_legs_input = <<>>
    /\ pc = Idle
    /\ strategy_legs = <<>>
    /\ n_parsed = 0
    /\ session = "none"
    /\ tasks = <<>>
    /\ results = <<>>
    /\ n_fetches = 0
    /\ completed = <<>>
    /\ ret = NoReturn

\* ParseLeg skipping a leg string that does not parse and going on
ParseLeg_SkipInvalid ==
    /\ pc = "parse"
    /\ n_parsed < Len(strategy_legs_input)
    /\ LET leg == parse_leg_string(strategy_legs_input[n_parsed + 1])
       IN  /\ n_parsed' = n_parsed + 1
           /\ strategy_legs' = IF leg.none THEN strategy_legs
                               ELSE Append(strategy_legs, leg)
    /\ UNCHANGED <<strategy_legs_input, pc, ret, session, tasks, results, n_fetches,
                   completed>>
    /\ UNCHANGED <<parser_vars, fetcher_vars, concurrent_vars, bot_vars>>

\* Lines 131-139: one turn of the parsing loop.  A leg string that does not
\* parse ends the call.
ParseLeg ==
    /\ pc = "parse"
    /\ n_parsed < Len(strategy_legs_input)
    /\ LET leg_str == strategy_legs_input[n_parsed + 1]
           leg == parse_leg_string(leg_str)
       IN  /\ n_parsed' = n_parsed + 1
           /\ IF ~leg.none
              THEN /\ strategy_legs' = Append(strategy_legs, leg)
                   /\ UNCHANGED <<pc, ret>>
              ELSE /\ ret' = InvalidLegError(leg_str)
                   /\ pc' = "done"
                   /\ UNCHANGED strategy_legs
    /\ UNCHANGED <<strategy_legs_input, session, tasks, results, n_fetches,
                   completed>>
    /\ UNCHANGED <<parser_vars, fetcher_vars, concurrent_vars, bot_vars>>

\* Lines 141-155: the list must not be empty and the legs must share their
\* underlying.
CheckLegs ==
    /\ pc = "parse"
    /\ n_parsed = Len(strategy_legs_input)
    /\ IF strategy_legs = <<>>
       THEN ret' = NoLegsError /\ pc' = "done"
       ELSE LET k == FirstMismatch(strategy_legs)
            IN  IF k # 0
                THEN /\ ret' = MixedCurrencyError(Underlying(strategy_legs[1]),
                                                  Underlying(strategy_legs[k]))
                     /\ pc' = "done"
                ELSE /\ pc' = "open"
                     /\ UNCHANGED ret
    /\ UNCHANGED <<strategy_legs_input, strategy_legs, n_parsed, session, tasks,
                   results, n_fetches, completed>>
    /\ UNCHANGED <<parser_vars, fetcher_vars, concurrent_vars, bot_vars>>

\* OpenSession with one task per distinct instrument of the legs
OpenSession_Dedup ==
    /\ pc = "open"
    /\ session' = "open"
    /\ tasks' = [i \in 1..Cardinality({strategy_legs[k].instrument :
                                           k \in 1..Len(strategy_legs)}) |-> "pending"]
    /\ results' = [i \in 1..Len(strategy_legs) |-> Quote(<<>>, Null, Null)]
    /\ pc' = "gather"
    /\ UNCHANGED <<strategy_legs_input, strategy_legs, n_parsed, n_fetches,
                   completed, ret>>
    /\ UNCHANGED <<parser_vars, fetcher_vars, concurrent_vars, bot_vars>>

\* Lines 158-161: the session is opened, one coroutine per leg is made and
\* gather schedules them all.
OpenSession ==
    /\ pc = "open"
    /\ session' = "open"
    /\ tasks' = [i \in 1..Len(strategy_legs) |-> "pending"]
    /\ results' = [i \in 1..Len(strategy_legs) |-> Quote(<<>>, Null, Null)]
    /\ pc' = "gather"
    /\ UNCHANGED <<strategy_legs_input, strategy_legs, n_parsed, n_fetches,
                   completed, ret>>
    /\ UNCHANGED <<parser_vars, fetcher_vars, concurrent_vars, bot_vars>>

\* StartFetch with each fetch awaited before the next one is started
StartFetch_Sequential(i) ==
    /\ pc = "gather"
    /\ tasks[i] = "pending"
    /\ \A j \in 1..(i - 1) : tasks[j] = "done"
    /\ tasks' = [tasks EXCEPT ![i] = "running"]
    /\ n_fetches' = n_fetches + 1
    /\ UNCHANGED <<strategy_legs_input, pc, strategy_legs, n_parsed, session,
                   results, completed, ret>>
    /\ UNCHANGED <<parser_vars, fetcher_vars, concurrent_vars, bot_vars>>

\* Lines 22-24: task i runs up to its session.get.  The event loop starts the
\* tasks in the order gather was given them.
StartFetch(i) ==
    /\ pc = "gather"
    /\ tasks[i] = "pending"
    /\ \A j \in 1..(i - 1) : tasks[j] # "pending"
    /\ tasks' = [tasks EXCEPT ![i] = "running"]
    /\ n_fetches' = n_fetches + 1
    /\ UNCHANGED <<strategy_legs_input, pc, strategy_legs, n_parsed, session,
                   results, completed, ret>>
    /\ UNCHANGED <<parser_vars, fetcher_vars, concurrent_vars, bot_vars>>

\* CompleteFetch with the results kept in the order the fetches ended (as
\* asyncio.as_completed would give them) and not in the order of the tasks
CompleteFetch_AsCompleted(i) ==
    /\ pc = "gather"
    /\ tasks[i] = "running"
    /\ \E resp \in PricerResponses :
          LET returned == get_instrument_mark_price_async(
                              strategy_legs[i].instrument, resp)
          IN  /\ results' = [results EXCEPT ![Len(completed) + 1] = returned]
              /\ completed' = Append(completed, [leg |-> i, returned |-> returned])
    /\ tasks' = [tasks EXCEPT ![i] = "done"]
    /\ UNCHANGED <<strategy_legs_input, pc, strategy_legs, n_parsed, session,
                   n_fetches, ret>>
    /\ UNCHANGED <<parser_vars, fetcher_vars, concurrent_vars, bot_vars>>

\* Lines 24-36: the exchange of task i ends, in any of the ways it can, and
\* the task returns its triple.
CompleteFetch(i) ==
    /\ pc = "gather"
    /\ tasks[i] = "running"
    /\ \E resp \in PricerResponses :
          LET returned == get_instrument_mark_price_async(
                              strategy_legs[i].instrument, resp)
          IN  /\ results' = [results EXCEPT ![i] = returned]
              /\ completed' = Append(completed, [leg |-> i, returned |-> returned])
    /\ tasks' = [tasks EXCEPT ![i] = "done"]
    /\ UNCHANGED <<strategy_legs_input, pc, strategy_legs, n_parsed, session,
                   n_fetches, ret>>
    /\ UNCHANGED <<parser_vars, fetcher_vars, concurrent_vars, bot_vars>>

\* Join_ with gather also returning as soon as one fetch has failed, the
\* session closing over the fetches still under way
Join_OnFirstFailure ==
    /\ pc = "gather"
    /\ \/ \A i \in 1..Len(tasks) : tasks[i] = "done"
       \/ \E k \in 1..Len(completed) : completed[k].returned.mark_price = Null
    /\ session' = "closed"
    /\ pc' = "process"
    /\ UNCHANGED <<strategy_legs_input, strategy_legs, n_parsed, tasks, results,
                   n_fetches, completed, ret>>
    /\ UNCHANGED <<parser_vars, fetcher_vars, concurrent_vars, bot_vars>>

\* Line 161 and the end of the 'async with' of line 158: gather returns when
\* every task is done, and the session is closed.
Join_ ==
    /\ pc = "gather"
    /\ \A i \in 1..Len(tasks) : tasks[i] = "done"
    /\ session' = "closed"
    /\ pc' = "process"
    /\ UNCHANGED <<strategy_legs_input, strategy_legs, n_parsed, tasks, results,
                   n_fetches, completed, ret>>
    /\ UNCHANGED <<parser_vars, fetcher_vars, concurrent_vars, bot_vars>>

\* Lines 164-206: the report is built and returned, or an exception leaves.
Process ==
    /\ pc = "process"
    /\ ret' = ProcessResults(strategy_legs, results)
    /\ pc' = "done"
    /\ UNCHANGED <<strategy_legs_input, strategy_legs, n_parsed, session, tasks,
                   results, n_fetches, completed>>
    /\ UNCHANGED <<parser_vars, fetcher_vars, concurrent_vars, bot_vars>>

-----------------------------------------------------------------------------
(* One call of parse_leg_string, and one of the quote fetcher.             *)

ParserIdle == leg_string = <<>> /\ parsed_leg = <<>>

ConcurrentIdle == requests = <<>>

MonitorIdle ==
    /\ now = 0
    /\ bot_data = <<>>
    /\ chat_data = <<>>
    /\ job_queue = {}
    /\ running = {}
    /\ alerts = <<>>
    /\ messages = <<>>

NotifierIdle ==
    /\ LAST_CALL_TIMESTAMPS = <<>>
    /\ threads = <<>>
    /\ calls = <<>>
    /\ invocations = 0

ConversationIdle ==
    /\ conversations = <<>>
    /\ replies = <<>>
    /\ px_calls = <<>>
    /\ n_updates = 0

SendIdle ==
    /\ ALLOWED_USER_IDS = <<>>
    /\ user_data = <<>>
    /\ send_conversations = <<>>
    /\ last_handled = <<>>

BotIdle == MonitorIdle /\ NotifierIdle /\ ConversationIdle /\ SendIdle

ParserInit ==
    /\ leg_string \in ParserLegStrings
    /\ parsed_leg = <<>>
    /\ PricerIdle
    /\ instrument_name = <<>> /\ response = <<>> /\ quote = <<>>
    /\ ConcurrentIdle
    /\ BotIdle

\* parsed_leg holds the value returned once the call has been made
ParseCall ==
    /\ parsed_leg = <<>>
    /\ leg_string # <<>>
    /\ parsed_leg' = <<parse_leg_string(leg_string)>>
    /\ UNCHANGED <<leg_string, pricer_vars, fetcher_vars, concurrent_vars, bot_vars>>

FetcherIdle == instrument_name = <<>> /\ response = <<>> /\ quote = <<>>

FetcherInit ==
    /\ instrument_name \in FetcherInstruments
    /\ response \in {<<r>> : r \in Responses}
    /\ quote = <<>>
    /\ PricerIdle
    /\ ParserIdle
    /\ ConcurrentIdle
    /\ BotIdle

\* quote holds the triple returned once the call has been made
FetchCall ==
    /\ quote = <<>>
    /\ response # <<>>
    /\ quote' = <<get_instrument_mark_price_async(instrument_name, response[1])>>
    /\ UNCHANGED <<instrument_name, response, pricer_vars, parser_vars,
                   concurrent_vars, bot_vars>>

-----------------------------------------------------------------------------
(* Several calls of mark_px on one event loop.  A coroutine gives way only *)
(* at an await: lines 131-160 hold none, so a call parses and checks its   *)
(* legs and makes its tasks in one step; lines 164-206 hold none either.   *)
(* Every name mark_px assigns is a local of the call, so each call has its *)
(* own record.                                                             *)

Requests == {"a", "b"}

BuyPut == JoinWords(<<<<"+","1">>, FullPut>>)
SellPut == JoinWords(<<<<"-","2">>, FullPut>>)
SellCall == JoinWords(<<<<"-","2">>, Expiry, <<"1","3","0">>, <<"C">>>>)
SellEth == JoinWords(<<<<"-","1">>, EthCall>>)
ZeroPut == JoinWords(<<<<"+","0">>, FullPut>>)

\* The leg lists of the concurrent calls: the same instrument bought by one
\* and sold by another, a two-leg strategy, and two lists that end in an error.
ConcurrentInputs ==
    { <<BuyPut>>, <<SellPut>>, <<BuyPut, SellCall>>, <<BuyPut, SellEth>>, <<ZeroPut>> }

\* The exchanges their fetches are given: a timeout, or a mark price with an
\* index price.
ConcurrentResponses ==
    {r \in Responses :
        \/ r.kind = "timeout"
        \/ r.kind = "ok" /\ r.mark \in {Num(n) : n \in 1..MaxPrice} /\ r.index.t = "num"}

\* Lines 131-139: the parsing loop from leg string k on
RECURSIVE ParseLegs(_, _, _)
ParseLegs(input, k, legs) ==
    IF k > Len(input) THEN [ok |-> TRUE, legs |-> legs, ret |-> NoReturn]
    ELSE LET leg == parse_leg_string(input[k])
         IN  IF leg.none
             THEN [ok |-> FALSE, legs |-> legs, ret |-> InvalidLegError(input[k])]
             ELSE ParseLegs(input, k + 1, Append(legs, leg))

\* Lines 131-155: the legs of a call, or the error it returns
CheckedLegs(input) ==
    LET parsed == ParseLegs(input, 1, <<>>)
    IN  IF ~parsed.ok THEN parsed
        ELSE IF parsed.legs = <<>>
        THEN [ok |-> FALSE, legs |-> <<>>, ret |-> NoLegsError]
        ELSE LET k == FirstMismatch(parsed.legs)
             IN  IF k = 0 THEN parsed
                 ELSE [ok |-> FALSE, legs |-> parsed.legs,
                       ret |-> MixedCurrencyError(Underlying(parsed.legs[1]),
                                                  Underlying(parsed.legs[k]))]

Request(input) ==
    [strategy_legs_input |-> input, pc |-> "called", strategy_legs |-> <<>>,
     session |-> "none", session_id |-> 0,
     tasks |-> <<>>, results |-> <<>>, overlapped |-> FALSE, ret |-> NoReturn]

\* every call using one session kept by the module
ClientSession_Shared(r) == 1

\* Line 158: aiohttp.ClientSession() makes a new object, which the call
\* binds to a local; objects are told apart by the order they were made in
ClientSession(r) ==
    1 + Cardinality({q \in Requests : requests[q].session # "none"})

ConcurrentInit ==
    /\ requests \in [Requests -> {Request(input) : input \in ConcurrentInputs}]
    /\ PricerIdle
    /\ ParserIdle
    /\ FetcherIdle
    /\ BotIdle

\* Lines 131-161: call r runs up to its gather, or returns an error
Call(r) ==
    /\ requests[r].pc = "called"
    /\ LET checked == CheckedLegs(requests[r].strategy_legs_input)
       IN  requests' = [requests EXCEPT ![r] =
               IF checked.ok
               THEN [@ EXCEPT !.pc = "gather",
                              !.strategy_legs = checked.legs,
                              !.session = "open",
                              !.session_id = ClientSession(r),
                              !.tasks = [i \in 1..Len(checked.legs) |-> "pending"],
                              !.results = [i \in 1..Len(checked.legs) |->
                                               Quote(<<>>, Null, Null)]]
               ELSE [@ EXCEPT !.pc = "done",
                              !.strategy_legs = checked.legs,
                              !.ret = checked.ret]]
    /\ UNCHANGED <<pricer_vars, parser_vars, fetcher_vars, bot_vars>>

\* Lines 22-24: task i of call r runs up to its session.get
StartFetchOf(r, i) ==
    /\ requests[r].pc = "gather"
    /\ requests[r].tasks[i] = "pending"
    /\ \A j \in 1..(i - 1) : requests[r].tasks[j] # "pending"
    /\ requests' = [requests EXCEPT ![r].tasks[i] = "running"]
    /\ UNCHANGED <<pricer_vars, parser_vars, fetcher_vars, bot_vars>>

\* Lines 24-36: the exchange of task i of call r ends
CompleteFetchOf(r, i) ==
    /\ requests[r].pc = "gather"
    /\ requests[r].tasks[i] = "running"
    /\ \E resp \in ConcurrentResponses :
          requests' = [requests EXCEPT
              ![r].tasks[i] = "done",
              ![r].results[i] = get_instrument_mark_price_async(
                                    requests[r].strategy_legs[i].instrument, resp)]
    /\ UNCHANGED <<pricer_vars, parser_vars, fetcher_vars, bot_vars>>

\* Line 161 and the end of the 'async with' of line 158, for call r
JoinOf(r) ==
    /\ requests[r].pc = "gather"
    /\ \A i \in 1..Len(requests[r].tasks) : requests[r].tasks[i] = "done"
    /\ requests' = [requests EXCEPT ![r].pc = "process",
                                    ![r].session = "closed"]
    /\ UNCHANGED <<pricer_vars, parser_vars, fetcher_vars, bot_vars>>

\* the results of both calls landing in one price map kept by the module
VisibleResults_Shared(r) ==
    LET other == CHOOSE q \in Requests : q # r
    IN  requests[r].results
        \o SelectSeq(requests[other].results, LAMBDA triple : triple.instrument # <<>>)

\* Lines 161-167: results, and the price map made from it, are locals of the
\* call
VisibleResults(r) == requests[r].results

\* Lines 164-206 for call r.  overlapped tells whether another call held its
\* results at that moment, its own report not yet built.
ProcessOf(r) ==
    /\ requests[r].pc = "process"
    /\ requests' = [requests EXCEPT
           ![r].pc = "done",
           ![r].overlapped = \E q \in Requests \ {r} :
                                 requests[q].pc = "process",
           ![r].ret = ProcessResults(requests[r].strategy_legs, VisibleResults(r))]
    /\ UNCHANGED <<pricer_vars, parser_vars, fetcher_vars, bot_vars>>

-----------------------------------------------------------------------------
(* The unanswered-message monitor of Monitor.py.                           *)
(*                                                                         *)
(* Telegram gives chat.id and user.id as Python ints; read_ids_from_csv    *)
(* gives the ids of the CSV files as Python strs.  An id is modelled by    *)
(* its type and its decimal text, so that 7 and '7' are different members  *)
(* of a set, as they are in Python.                                        *)

MaxMessages == 3   \* messages the monitor receives in one run
MaxClock == 600    \* the clock stops here

FiveMinutes == 300 \* datetime.timedelta(minutes=5), in seconds
JobDelay == 5      \* the second argument of run_once: seconds from now

None == <<>>

IntId(d) == [t |-> "int", v |-> d]
StrId(d) == [t |-> "str", v |-> d]

Group == <<"-", "1", "0", "0", "1">>        \* a group of Monitor_List.csv
OtherGroup == <<"-", "1", "0", "0", "2">>   \* a group that is not listed
BotUser == <<"4", "2">>                     \* context.bot.id
Admin == <<"7">>                            \* a user of the allowed-user file
Member == <<"8">>                           \* any other user

Chats == {Group, OtherGroup}
Users == {BotUser, Admin, Member}

\* The rows of the two CSV files: a header, then one id per row
MonitorListCsv == << <<"group_id">>, <<>>, <<Group \o <<" ">>>> >>
UsersCsv == << <<"user_id">>, <<<<" ">> \o Admin, <<"name">>>> >>

SetOf(list) == {list[i] : i \in DOMAIN list}

\* OTCBot.py lines 117-143: the first cell of every non-empty row after the
\* header, stripped, as a str
read_ids_from_csv(rows) ==
    LET kept == SelectSeq(SubSeq(rows, 2, Len(rows)), LAMBDA row : row # <<>>)
    IN  [i \in DOMAIN kept |-> StrId(Strip(kept[i][1]))]

\* OTCBot.py lines 615-618: what main stores in bot_data
MainBotData ==
    [allowed_user_ids |-> SetOf(read_ids_from_csv(UsersCsv)),
     monitor_ids |-> SetOf(read_ids_from_csv(MonitorListCsv))]

\* the same ids held as ints, the type of the ids the handlers compare them
\* with: a context whose bot_data another caller of Monitor.py filled
IntBotData ==
    [allowed_user_ids |-> {IntId(id.v) : id \in MainBotData.allowed_user_ids},
     monitor_ids |-> {IntId(id.v) : id \in MainBotData.monitor_ids}]

\* the allowed-user file missing or holding its header only
NoAdminBotData == [IntBotData EXCEPT !.allowed_user_ids = {}]

MonitorInit ==
    /\ now = 0
    /\ bot_data \in {MainBotData, IntBotData, NoAdminBotData}
    /\ chat_data = [c \in Chats |-> [last_admin_message_time |-> None,
                                     unanswered_job |-> None]]
    /\ job_queue = {}
    /\ running = {}
    /\ alerts = <<>>
    /\ messages = <<>>
    /\ PricerIdle
    /\ ParserIdle
    /\ FetcherIdle
    /\ ConcurrentIdle
    /\ NotifierIdle
    /\ ConversationIdle
    /\ SendIdle

\* Lines 116-121: the job run_once makes for a message
UnansweredJob(message) ==
    [name |-> <<"unanswered", message.chat, message.message_id>>,
     chat_id |-> message.chat,
     when |-> now + JobDelay]

\* the handler scheduling the new job beside the one chat_data holds
WithoutJobOf_Keep(data) == job_queue

\* Lines 93-94 and 111-112: get_jobs_by_name and schedule_removal of the job
\* chat_data holds
WithoutJobOf(data) ==
    IF data.unanswered_job = None THEN job_queue
    ELSE job_queue \ {data.unanswered_job[1]}

\* monitor_group_chats without the check of recent admin activity
monitor_group_chats_NoWindow(c, u) ==
    /\ Len(messages) < MaxMessages
    /\ LET message == [chat |-> c, from_user |-> u, date |-> now,
                       message_id |-> Len(messages) + 1]
           data == chat_data[c]
           job == UnansweredJob(message)
       IN  /\ messages' = Append(messages, message)
           /\ IF IntId(c) \notin bot_data.monitor_ids \/ u = BotUser
              THEN UNCHANGED <<chat_data, job_queue>>
              ELSE IF IntId(u) \in bot_data.allowed_user_ids
              THEN /\ chat_data' = [chat_data EXCEPT ![c] =
                          [last_admin_message_time |-> <<message.date>>,
                           unanswered_job |-> None]]
                   /\ job_queue' = WithoutJobOf(data)
              ELSE /\ job_queue' = WithoutJobOf(data) \cup {job}
                   /\ chat_data' = [chat_data EXCEPT ![c].unanswered_job = <<job>>]
    /\ UNCHANGED <<now, bot_data, running, alerts>>
    /\ UNCHANGED <<pricer_vars, parser_vars, fetcher_vars, concurrent_vars,
                   notifier_vars, conversation_vars, send_vars>>

\* Lines 66-124: monitor_group_chats handles a message of user u in chat c
monitor_group_chats(c, u) ==
    /\ Len(messages) < MaxMessages
    /\ LET message == [chat |-> c, from_user |-> u, date |-> now,
                       message_id |-> Len(messages) + 1]
           data == chat_data[c]
           job == UnansweredJob(message)
       IN  /\ messages' = Append(messages, message)
           /\ IF IntId(c) \notin bot_data.monitor_ids \/ u = BotUser
              THEN UNCHANGED <<chat_data, job_queue>>
              ELSE IF IntId(u) \in bot_data.allowed_user_ids
              THEN /\ chat_data' = [chat_data EXCEPT ![c] =
                          [last_admin_message_time |-> <<message.date>>,
                           unanswered_job |-> None]]
                   /\ job_queue' = WithoutJobOf(data)
              ELSE IF /\ data.last_admin_message_time # None
                      /\ message.date - data.last_admin_message_time[1] < FiveMinutes
              THEN UNCHANGED <<chat_data, job_queue>>
              ELSE /\ job_queue' = WithoutJobOf(data) \cup {job}
                   /\ chat_data' = [chat_data EXCEPT ![c].unanswered_job = <<job>>]
    /\ UNCHANGED <<now, bot_data, running, alerts>>
    /\ UNCHANGED <<pricer_vars, parser_vars, fetcher_vars, concurrent_vars,
                   notifier_vars, conversation_vars, send_vars>>

\* Line 116: the job queue runs a job when its time has come, so the clock
\* does not pass the time of a scheduled job
Advance ==
    /\ \E t \in {j.when : j \in job_queue} \cup {now + FiveMinutes} :
          /\ now < t
          /\ t <= MaxClock
          /\ \A j \in job_queue : t <= j.when
          /\ now' = t
    /\ UNCHANGED <<bot_data, chat_data, job_queue, running, alerts, messages>>
    /\ UNCHANGED <<pricer_vars, parser_vars, fetcher_vars, concurrent_vars,
                   notifier_vars, conversation_vars, send_vars>>

\* Lines 15-57: the job queue starts unanswered_message_callback for a job
\* whose time has come; the callback sends its notifications
StartCallback(job) ==
    /\ job \in job_queue
    /\ job.when <= now
    /\ job_queue' = job_queue \ {job}
    /\ running' = running \cup {job}
    /\ alerts' = Append(alerts, [name |-> job.name, chat_id |-> job.chat_id,
                                 sent |-> now, returned |-> "not yet"])
    /\ UNCHANGED <<now, bot_data, chat_data, messages>>
    /\ UNCHANGED <<pricer_vars, parser_vars, fetcher_vars, concurrent_vars,
                   notifier_vars, conversation_vars, send_vars>>

\* the callback deleting whatever entry chat_data holds
Cleanup_Always(job) ==
    [chat_data EXCEPT ![job.chat_id].unanswered_job = None]

\* Lines 59-62: the callback forgets its job if chat_data still holds it
Cleanup(job) ==
    [chat_data EXCEPT ![job.chat_id].unanswered_job =
        IF @ # None /\ @[1].name = job.name THEN None ELSE @]

\* Lines 45-62: the callback ends.  With no admin id in bot_data it returns
\* at line 49, before the cleanup; a failed send to an admin is logged and
\* the loop goes on.  The alert keeps how the callback found chat_data.
unanswered_message_callback(job) ==
    /\ job \in running
    /\ running' = running \ {job}
    /\ chat_data' = IF bot_data.allowed_user_ids = {} THEN chat_data
                    ELSE Cleanup(job)
    /\ LET k == CHOOSE i \in DOMAIN alerts : alerts[i].name = job.name
           entry == chat_data[job.chat_id].unanswered_job
       IN  alerts' = [alerts EXCEPT ![k].returned =
               IF bot_data.allowed_user_ids = {} THEN "no admin ids"
               ELSE IF entry = None THEN "no entry"
               ELSE IF entry[1].name = job.name THEN "deleted its entry"
               ELSE "kept a newer entry"]
    /\ UNCHANGED <<now, bot_data, job_queue, messages>>
    /\ UNCHANGED <<pricer_vars, parser_vars, fetcher_vars, concurrent_vars,
                   notifier_vars, conversation_vars, send_vars>>

MonitorNext ==
    \/ \E c \in Chats, u \in Users : monitor_group_chats(c, u)
    \/ Advance
    \/ \E job \in job_queue : StartCallback(job)
    \/ \E job \in running : unanswered_message_callback(job)

MonitorSpec == MonitorInit /\ [][MonitorNext]_vars

-----------------------------------------------------------------------------
(* send_twilio_call of call_notifier.py.  unanswered_message_callback      *)
(* hands each call to the default executor (Monitor.py lines 41-43), and   *)
(* the callbacks of two jobs run on the event loop together: the calls of  *)
(* two alerts run on two threads of the pool.                              *)

MaxInvocations == 3      \* calls of send_twilio_call in one run

CALL_COOLDOWN == 300     \* timedelta(minutes=5), in seconds

Threads == {"thread-1", "thread-2"}

RECIPIENT_PHONE_NUMBERS == <<"+15550001", "+15550002">>

IdleThread == [pc |-> "idle", k |-> 0]

NotifierInit ==
    /\ LAST_CALL_TIMESTAMPS = [number \in SetOf(RECIPIENT_PHONE_NUMBERS) |-> None]
    /\ threads = [t \in Threads |-> IdleThread]
    /\ calls = <<>>
    /\ invocations = 0
    /\ MonitorIdle
    /\ ConversationIdle
    /\ SendIdle
    /\ PricerIdle
    /\ ParserIdle
    /\ FetcherIdle
    /\ ConcurrentIdle

\* Line 101: the loop goes on to the next number, or the call returns
NextNumber(thread) ==
    IF thread.k < Len(RECIPIENT_PHONE_NUMBERS)
    THEN [pc |-> "check", k |-> thread.k + 1]
    ELSE IdleThread

\* Lines 78-99: the executor starts a call of send_twilio_call on thread t
send_twilio_call(t) ==
    /\ threads[t].pc = "idle"
    /\ invocations < MaxInvocations
    /\ invocations' = invocations + 1
    /\ threads' = [threads EXCEPT ![t] = [pc |-> "check", k |-> 1]]
    /\ UNCHANGED <<LAST_CALL_TIMESTAMPS, calls>>
    /\ UNCHANGED <<pricer_vars, parser_vars, fetcher_vars, concurrent_vars,
                   monitor_vars, conversation_vars, send_vars>>

\* Lines 101-110: thread t reads the timestamp of its number and skips the
\* number if the cooldown has not passed
CheckCooldown(t) ==
    /\ threads[t].pc = "check"
    /\ LET number == RECIPIENT_PHONE_NUMBERS[threads[t].k]
           last_call_time == LAST_CALL_TIMESTAMPS[number]
       IN  threads' = [threads EXCEPT ![t] =
               IF /\ last_call_time # None
                  /\ now - last_call_time[1] < CALL_COOLDOWN
               THEN NextNumber(@)
               ELSE [@ EXCEPT !.pc = "create"]]
    /\ UNCHANGED <<LAST_CALL_TIMESTAMPS, calls, invocations>>
    /\ UNCHANGED <<pricer_vars, parser_vars, fetcher_vars, concurrent_vars,
                   monitor_vars, conversation_vars, send_vars>>

\* Lines 112-125: client.calls.create returns and the timestamp is written,
\* or it raises: a TwilioRestException is logged and the loop goes on, any
\* other exception ends the call
CreateCall(t) ==
    /\ threads[t].pc = "create"
    /\ LET number == RECIPIENT_PHONE_NUMBERS[threads[t].k]
       IN  \E outcome \in {"created", "TwilioRestException", "Exception"} :
              /\ IF outcome = "created"
                 THEN /\ calls' = Append(calls, [to |-> number, at |-> now])
                      /\ LAST_CALL_TIMESTAMPS' =
                             [LAST_CALL_TIMESTAMPS EXCEPT ![number] = <<now>>]
                 ELSE UNCHANGED <<LAST_CALL_TIMESTAMPS, calls>>
              /\ threads' = [threads EXCEPT ![t] =
                                 IF outcome = "Exception" THEN IdleThread
                                 ELSE NextNumber(@)]
    /\ UNCHANGED invocations
    /\ UNCHANGED <<pricer_vars, parser_vars, fetcher_vars, concurrent_vars,
                   monitor_vars, conversation_vars, send_vars>>

\* Lines 104 and 120: datetime.now() moves on between the steps
Tick ==
    /\ \E t \in {now + CALL_COOLDOWN - 1, now + CALL_COOLDOWN} :
          /\ t <= MaxClock
          /\ now' = t
    /\ UNCHANGED <<bot_data, chat_data, job_queue, running, alerts, messages>>
    /\ UNCHANGED <<pricer_vars, parser_vars, fetcher_vars, concurrent_vars,
                   notifier_vars, conversation_vars, send_vars>>

NotifierNext ==
    \/ \E t \in Threads : send_twilio_call(t)
    \/ \E t \in Threads : CheckCooldown(t)
    \/ \E t \in Threads : CreateCall(t)
    \/ Tick

NotifierSpec == NotifierInit /\ [][NotifierNext]_vars

-----------------------------------------------------------------------------
(* The /px conversation of OTCBot.py, for the messages of one user in one  *)
(* chat.  The application handles one update at a time; an update goes to  *)
(* the first handler of the list of main that accepts it; a handler that   *)
(* raises leaves the state of its conversation as it was.                  *)

MaxUpdates == 3   \* updates handled in one run

END == "END"
CHOOSING_GROUP == "CHOOSING_GROUP"
GETTING_LEGS == "GETTING_LEGS"

\* The text messages the user sends: lines of leg strings, blank lines, and
\* commands
MessageTexts ==
    { <<"a">>,
      <<"a", "\n", "b">>,
      <<"b", "\n", "a">>,
      <<"a", " ", "b", "\n", "c">>,
      <<" ", "a", " ", "\n", "\n", "\t", "b", "\n">>,
      <<" ", "\n", "\t">>,
      <<"/", "p", "x">>,
      <<"/", "c", "a", "n", "c", "e", "l">>,
      <<"/", "h", "e", "l", "p">>,
      <<"/", "s", "e", "n", "d", " ", "h", "i">> }

\* filters.COMMAND: the message starts with a bot command
IsCommand(text) == Len(text) >= 2 /\ Head(text) = "/"

\* the name CommandHandler compares: the first word without its '/'
CommandName(text) == Tail(Split(text)[1])

\* Line 642: send_filter
SendFilter(text) ==
    IsCommand(text) /\ StartsWith(text, <<"/", "s", "e", "n", "d">>)

\* Line 484: the stripped lines of the text that are not blank
NonBlankLines(text) ==
    LET lines == SplitOn(text, "\n")
        kept == SelectSeq(lines, LAMBDA line : Strip(line) # <<>>)
    IN  [i \in DOMAIN kept |-> Strip(kept[i])]

ConversationInit ==
    /\ conversations = [send |-> END, px |-> END]
    /\ replies = <<>>
    /\ px_calls = <<>>
    /\ n_updates = 0
    /\ MonitorIdle
    /\ NotifierIdle
    /\ SendIdle
    /\ PricerIdle
    /\ ParserIdle
    /\ FetcherIdle
    /\ ConcurrentIdle

\* Lines 642-668 and 672-695: the handler that takes a text message.
\* send_conv_handler is asked first, then price_conv_handler, then the
\* handlers added after them.
HandlerFor(text) ==
    IF \/ conversations.send = END /\ SendFilter(text)
       \/ /\ conversations.send = CHOOSING_GROUP
          /\ IsCommand(text)
          /\ CommandName(text) = <<"s", "e", "n", "d">>
    THEN "send_start"
    ELSE IF conversations.px = END
    THEN IF IsCommand(text) /\ CommandName(text) = <<"p", "x">>
         THEN "price_start"
         ELSE "other"
    ELSE IF IsCommand(text) THEN "price_cancel" ELSE "price_get_legs"

\* what every handler leaves behind: the update is counted and what the
\* handler sent is kept
Logged(text, handler, sent) ==
    /\ n_updates' = n_updates + 1
    /\ replies' = Append(replies, [text |-> text, handler |-> handler,
                                   sent |-> sent])

\* Lines 180-257: send_start ends its conversation or asks for the groups
send_start(text) ==
    /\ n_updates < MaxUpdates
    /\ HandlerFor(text) = "send_start"
    /\ \E state \in {END, CHOOSING_GROUP} :
          /\ conversations' = [conversations EXCEPT !.send = state]
          /\ Logged(text, "send_start", <<"send">>)
    /\ UNCHANGED px_calls
    /\ UNCHANGED <<pricer_vars, parser_vars, fetcher_vars, concurrent_vars,
                   monitor_vars, notifier_vars, send_vars>>

\* Lines 460-476: price_start sends the prompt and asks for the legs; if
\* the prompt cannot be sent the handler raises
price_start(text) ==
    /\ n_updates < MaxUpdates
    /\ HandlerFor(text) = "price_start"
    /\ \/ /\ conversations' = [conversations EXCEPT !.px = GETTING_LEGS]
          /\ Logged(text, "price_start", <<"prompt">>)
       \/ /\ UNCHANGED conversations
          /\ Logged(text, "price_start", <<>>)
    /\ UNCHANGED px_calls
    /\ UNCHANGED <<pricer_vars, parser_vars, fetcher_vars, concurrent_vars,
                   monitor_vars, notifier_vars, send_vars>>

\* Lines 478-498: price_get_legs.  Any reply_text may raise, and so may
\* mark_px; the handler then ends there.
price_get_legs(text) ==
    /\ n_updates < MaxUpdates
    /\ HandlerFor(text) = "price_get_legs"
    /\ LET strategy_legs_input_ == NonBlankLines(text)
           call == [strategy_legs_input |-> strategy_legs_input_,
                    state |-> conversations.px]
       IN  IF strategy_legs_input_ = <<>>
           THEN /\ UNCHANGED <<conversations, px_calls>>
                /\ \E sent \in {<<"no legs">>, <<>>} :
                       Logged(text, "price_get_legs", sent)
           ELSE \/ /\ UNCHANGED <<conversations, px_calls>>
                   /\ Logged(text, "price_get_legs", <<>>)
                \/ /\ px_calls' = Append(px_calls, call)
                   /\ \/ /\ UNCHANGED conversations
                         /\ \E sent \in {<<"calculating">>} :
                                Logged(text, "price_get_legs", sent)
                      \/ /\ conversations' = [conversations EXCEPT !.px = END]
                         /\ Logged(text, "price_get_legs",
                                    <<"calculating", "result">>)
    /\ UNCHANGED <<pricer_vars, parser_vars, fetcher_vars, concurrent_vars,
                   monitor_vars, notifier_vars, send_vars>>

\* Lines 500-505: price_cancel
price_cancel(text) ==
    /\ n_updates < MaxUpdates
    /\ HandlerFor(text) = "price_cancel"
    /\ \/ /\ conversations' = [conversations EXCEPT !.px = END]
          /\ Logged(text, "price_cancel", <<"canceled">>)
       \/ /\ UNCHANGED conversations
          /\ Logged(text, "price_cancel", <<>>)
    /\ UNCHANGED px_calls
    /\ UNCHANGED <<pricer_vars, parser_vars, fetcher_vars, concurrent_vars,
                   monitor_vars, notifier_vars, send_vars>>

\* Lines 675-695: a handler added after the two conversations takes the
\* message
OtherHandler(text) ==
    /\ n_updates < MaxUpdates
    /\ HandlerFor(text) = "other"
    /\ Logged(text, "other", <<>>)
    /\ UNCHANGED <<conversations, px_calls>>
    /\ UNCHANGED <<pricer_vars, parser_vars, fetcher_vars, concurrent_vars,
                   monitor_vars, notifier_vars, send_vars>>

ConversationNext ==
    \E text \in MessageTexts :
        \/ send_start(text)
        \/ price_start(text)
        \/ price_get_legs(text)
        \/ price_cancel(text)
        \/ OtherHandler(text)

ConversationSpec == ConversationInit /\ [][ConversationNext]_vars

-----------------------------------------------------------------------------
(* The /send conversation of OTCBot.py: send_start, broadcast_message and  *)
(* cancel_send, and reload_command, which replaces the list they check.    *)
(* ConversationHandler keeps one state for every (chat id, user id), and   *)
(* user_data is one dict for every user.  The application handles one      *)
(* update at a time; a handler that raises leaves the state of its         *)
(* conversation as it was.  An update no handler of these takes changes    *)
(* nothing here.                                                           *)

\* the users that write to the bot: each in a private chat, whose id is the
\* user's, and in a group
Senders == {Admin, Member}
PrivateChat(u) == [id |-> IntId(u), type |-> "private"]
GroupChat == [id |-> IntId(Group), type |-> "supergroup"]
ChatsOf(u) == {PrivateChat(u), GroupChat}
KeyOf(c, u) == <<c.id, IntId(u)>>
Keys == {KeyOf(c, u) : c \in {PrivateChat(v) : v \in Senders} \cup {GroupChat},
                       u \in Senders}

\* the allowed-user file as it may stand when it is read again, and the two
\* group files, which nobody edits during a run
BothUsersCsv == UsersCsv \o << <<Member>> >>
UsersFiles == {UsersCsv, BothUsersCsv}
LargeGroupsCsv == << <<"group_id">>, <<Group>> >>
AllGroupsCsv == << <<"group_id">>, <<Group>>, <<OtherGroup, <<"x">>>> >>

\* Lines 148-149: the two target lists, read when the module is loaded
GROUP_IDS_LARGE == read_ids_from_csv(LargeGroupsCsv)
GROUP_IDS_ALL == read_ids_from_csv(AllGroupsCsv)

\* the messages that start with /send: a text with a message, a text with
\* none, a photo with a caption
SendWord == <<"/", "s", "e", "n", "d">>
SendMessages ==
    { [photo |-> None, text |-> SendWord \o <<" ", "h", "i", " ">>],
      [photo |-> None, text |-> SendWord],
      [photo |-> <<"file">>, text |-> SendWord \o <<" ", "p">>] }

\* Lines 236-239: the callback data of the three buttons
Buttons == {"send_large_only", "send_all", "cancel_send"}

\* a cleared user_data: every key is absent
NoUserData ==
    [broadcast_type |-> None, photo_id |-> None,
     caption_to_broadcast |-> None, message_to_broadcast |-> None]

SendInit ==
    /\ ALLOWED_USER_IDS = read_ids_from_csv(UsersCsv)
    /\ user_data = [u \in Senders |-> NoUserData]
    /\ send_conversations = [k \in Keys |-> END]
    /\ last_handled = None
    /\ bot_data = MainBotData
    /\ now = 0
    /\ chat_data = <<>>
    /\ job_queue = {}
    /\ running = {}
    /\ alerts = <<>>
    /\ messages = <<>>
    /\ NotifierIdle
    /\ ConversationIdle
    /\ PricerIdle
    /\ ParserIdle
    /\ FetcherIdle
    /\ ConcurrentIdle

\* str(user.id) not in ALLOWED_USER_IDS (lines 183, 270, 363), negated
Authorized_Anyone(u) == TRUE

Authorized(u) == StrId(IntId(u).v) \in SetOf(ALLOWED_USER_IDS)

\* Lines 642-658: the handler of send_conv_handler that takes a message of
\* user u in chat c.  Without a conversation the entry point is asked, in
\* CHOOSING_GROUP the fallback, which takes the text command /send only.
MessageHandlerFor(c, u, message) ==
    IF send_conversations[KeyOf(c, u)] = END
    THEN IF \/ message.photo = None /\ SendFilter(message.text)
            \/ message.photo # None /\ StartsWith(message.text, SendWord)
         THEN "send_start"
         ELSE "none"
    ELSE IF /\ message.photo = None
            /\ IsCommand(message.text)
            /\ CommandName(message.text) = Tail(SendWord)
         THEN "send_start"
         ELSE "none"

\* Lines 651-656: the handler that takes a button press
CallbackHandlerFor(c, u, data) ==
    IF send_conversations[KeyOf(c, u)] # CHOOSING_GROUP THEN "none"
    ELSE IF data = "cancel_send" THEN "cancel_send"
    ELSE "broadcast_message"

\* Lines 214-220: the text after the command, stripped.  The command entity
\* starts the text and ends before the first white space.
MessagePart(text) ==
    LET length == Len(Split(text)[1])
    IN  Strip(SubSeq(text, length + 1, Len(text)))

\* what a handler leaves in last_handled: the update it took (a message or
\* the data of a button), its reply, the state it returned, the sends it
\* made to the groups and the tallies of its confirmation
Did(handler, c, u, update, reply, returned) ==
    << [handler |-> handler, chat |-> c, user |-> u, update |-> update,
        reply |-> reply, returned |-> returned, sends |-> <<>>,
        confirmation |-> None] >>

\* a handler that sends one reply or edits one message and returns: the
\* state is set when the reply went out, and kept when it raised
Replies(handler, c, u, update, reply, state) ==
    \/ /\ send_conversations' =
              [send_conversations EXCEPT ![KeyOf(c, u)] = state]
       /\ last_handled' = Did(handler, c, u, update, reply, state)
    \/ /\ UNCHANGED send_conversations
       /\ last_handled' = Did(handler, c, u, update, "none", "raised")

\* Lines 180-257
send_start_(c, u, message) ==
    /\ MessageHandlerFor(c, u, message) = "send_start"
    /\ LET message_part == MessagePart(message.text)
           typed == IF message.photo # None
                    THEN [user_data[u] EXCEPT !.broadcast_type = <<"photo">>,
                                              !.photo_id = message.photo]
                    ELSE [user_data[u] EXCEPT !.broadcast_type = <<"text">>]
       IN  IF ~Authorized(u)
           THEN /\ Replies("send_start", c, u, message, "not authorized", END)
                /\ UNCHANGED user_data
           ELSE IF c.type # "private"
           THEN /\ Replies("send_start", c, u, message, "private chat only", END)
                /\ UNCHANGED user_data
           ELSE IF message.photo # None
           THEN /\ Replies("send_start", c, u, message, "preview", CHOOSING_GROUP)
                /\ user_data' =
                       [user_data EXCEPT ![u] =
                           [typed EXCEPT !.caption_to_broadcast =
                                              <<message_part>>]]
           ELSE IF message_part = <<>>
           THEN /\ Replies("send_start", c, u, message, "usage", END)
                /\ user_data' = [user_data EXCEPT ![u] = typed]
           ELSE /\ Replies("send_start", c, u, message, "preview", CHOOSING_GROUP)
                /\ user_data' =
                       [user_data EXCEPT ![u] =
                           [typed EXCEPT !.message_to_broadcast =
                                             <<message_part>>]]
    /\ UNCHANGED <<ALLOWED_USER_IDS, monitor_vars>>
    /\ UNCHANGED <<pricer_vars, parser_vars, fetcher_vars, concurrent_vars,
                   notifier_vars, conversation_vars>>

\* Lines 307-313: the call of the bot API that carries the pending message
\* to one group
SendCall(data, group_id) ==
    IF data.broadcast_type = <<"photo">>
    THEN [method |-> "send_photo", chat_id |-> group_id,
          photo |-> data.photo_id, text |-> data.caption_to_broadcast]
    ELSE [method |-> "send_message", chat_id |-> group_id,
          photo |-> None, text |-> data.message_to_broadcast]

\* Lines 305-318 as a loop that gives up at the first send that raises
RECURSIVE BroadcastLoop_StopAtFailure(_, _, _, _, _)
BroadcastLoop_StopAtFailure(data, target_groups, raises, i, done) ==
    IF i > Len(target_groups) \/ done.failed_sends > 0 THEN done
    ELSE LET group_id == target_groups[i]
             sent == [call |-> SendCall(data, group_id), raised |-> raises[i]]
         IN  BroadcastLoop_StopAtFailure(data, target_groups, raises, i + 1,
                 IF raises[i]
                 THEN [done EXCEPT
                          !.sends = Append(@, sent),
                          !.failed_sends = @ + 1,
                          !.failed_group_ids = Append(@, group_id)]
                 ELSE [done EXCEPT
                          !.sends = Append(@, sent),
                          !.successful_sends = @ + 1])

\* Lines 305-318: the loop over the targets from the i-th on.  raises[i]
\* tells whether the send to the i-th target raises; done holds the sends
\* made and the three tallies so far.
RECURSIVE BroadcastLoop(_, _, _, _, _)
BroadcastLoop(data, target_groups, raises, i, done) ==
    IF i > Len(target_groups) THEN done
    ELSE LET group_id == target_groups[i]
             sent == [call |-> SendCall(data, group_id), raised |-> raises[i]]
         IN  BroadcastLoop(data, target_groups, raises, i + 1,
                 IF raises[i]
                 THEN [done EXCEPT
                          !.sends = Append(@, sent),
                          !.failed_sends = @ + 1,
                          !.failed_group_ids = Append(@, group_id)]
                 ELSE [done EXCEPT
                          !.sends = Append(@, sent),
                          !.successful_sends = @ + 1])

\* Lines 301-303: the tallies before the loop
NothingSent ==
    [sends |-> <<>>, successful_sends |-> 0, failed_sends |-> 0,
     failed_group_ids |-> <<>>]

\* Lines 260-337.  query.answer and the edit of the status may raise before
\* anything is sent, the edit of the confirmation after everything was.
broadcast_message(c, u, choice) ==
    /\ CallbackHandlerFor(c, u, choice) = "broadcast_message"
    /\ LET data == user_data[u]
           target_groups == IF choice = "send_large_only"
                            THEN GROUP_IDS_LARGE
                            ELSE GROUP_IDS_ALL
       IN  IF ~Authorized(u)
           THEN /\ Replies("broadcast_message", c, u, choice, "not authorized", END)
                /\ UNCHANGED user_data
           ELSE IF data.broadcast_type = None
           THEN /\ Replies("broadcast_message", c, u, choice, "lost", END)
                /\ UNCHANGED user_data
           ELSE \/ /\ last_handled' =
                          Did("broadcast_message", c, u, choice,
                              "none", "raised")
                   /\ UNCHANGED <<user_data, send_conversations>>
                \/ \E raises \in [DOMAIN target_groups -> BOOLEAN] :
                     LET done == BroadcastLoop(data, target_groups, raises,
                                               1, NothingSent)
                         confirmation ==
                             [successful_sends |-> done.successful_sends,
                              failed_sends |-> done.failed_sends,
                              failed_ids |-> IF done.failed_sends > 0
                                             THEN done.failed_group_ids
                                             ELSE <<>>]
                     IN  \/ /\ last_handled' =
                                  [Did("broadcast_message", c, u, choice,
                                       "complete", END)
                                      EXCEPT ![1].sends = done.sends,
                                             ![1].confirmation =
                                                 <<confirmation>>]
                            /\ user_data' = [user_data EXCEPT ![u] = NoUserData]
                            /\ send_conversations' =
                                  [send_conversations
                                      EXCEPT ![KeyOf(c, u)] = END]
                         \/ /\ last_handled' =
                                  [Did("broadcast_message", c, u, choice,
                                       "none", "raised")
                                      EXCEPT ![1].sends = done.sends]
                            /\ UNCHANGED <<user_data, send_conversations>>
    /\ UNCHANGED <<ALLOWED_USER_IDS, monitor_vars>>
    /\ UNCHANGED <<pricer_vars, parser_vars, fetcher_vars, concurrent_vars,
                   notifier_vars, conversation_vars>>

\* Lines 341-351: user_data is cleared after the edit, so not when it raises
cancel_send(c, u, choice) ==
    /\ CallbackHandlerFor(c, u, choice) = "cancel_send"
    /\ \/ /\ send_conversations' =
                 [send_conversations EXCEPT ![KeyOf(c, u)] = END]
          /\ user_data' = [user_data EXCEPT ![u] = NoUserData]
          /\ last_handled' = Did("cancel_send", c, u, choice, "canceled", END)
       \/ /\ UNCHANGED <<send_conversations, user_data>>
          /\ last_handled' = Did("cancel_send", c, u, choice, "none", "raised")
    /\ UNCHANGED <<ALLOWED_USER_IDS, monitor_vars>>
    /\ UNCHANGED <<pricer_vars, parser_vars, fetcher_vars, concurrent_vars,
                   notifier_vars, conversation_vars>>

\* Lines 356-395: /reload of user u, which no handler of send_conv_handler
\* takes, with the allowed-user file as it stands now (file = None: there
\* is no file).  The lists are replaced before the reply is sent.
reload_command(c, u, file) ==
    /\ IF ~Authorized(u)
       THEN /\ UNCHANGED <<ALLOWED_USER_IDS, bot_data>>
            /\ \E reply \in {"not authorized", "none"} :
                   last_handled' =
                       Did("reload_command", c, u, file, reply, "None")
       ELSE /\ ALLOWED_USER_IDS' = IF file = None THEN ALLOWED_USER_IDS
                                   ELSE read_ids_from_csv(file[1])
            /\ bot_data' = [bot_data EXCEPT
                               !.allowed_user_ids = SetOf(ALLOWED_USER_IDS')]
            /\ \E reply \in {"reloaded", "none"} :
                   last_handled' =
                       Did("reload_command", c, u, file, reply, "None")
    /\ UNCHANGED <<user_data, send_conversations>>
    /\ UNCHANGED <<now, chat_data, job_queue, running, alerts, messages>>
    /\ UNCHANGED <<pricer_vars, parser_vars, fetcher_vars, concurrent_vars,
                   notifier_vars, conversation_vars>>

SendNext ==
    \E u \in Senders : \E c \in ChatsOf(u) :
        \/ \E message \in SendMessages : send_start_(c, u, message)
        \/ \E choice \in Buttons : broadcast_message(c, u, choice)
        \/ \E choice \in Buttons : cancel_send(c, u, choice)
        \/ \E file \in {None} \cup {<<rows>> : rows \in UsersFiles} :
               reload_command(c, u, file)

\* the /send conversations of two users
SendSpec == SendInit /\ [][SendNext]_vars

-----------------------------------------------------------------------------
(* The specifications.                                                     *)

Init == PricerInit /\ ParserIdle /\ FetcherIdle /\ ConcurrentIdle /\ BotIdle

Next ==
    \/ ParseLeg
    \/ CheckLegs
    \/ OpenSession
    \/ \E i \in 1..Len(tasks) : StartFetch(i)
    \/ \E i \in 1..Len(tasks) : CompleteFetch(i)
    \/ Join_
    \/ Process

\* one call of mark_px
Spec == Init /\ [][Next]_vars

ParserNext == ParseCall

\* one call of parse_leg_string
ParserSpec == ParserInit /\ [][ParserNext]_vars

FetcherNext == FetchCall

\* one call of get_instrument_mark_price_async
FetcherSpec == FetcherInit /\ [][FetcherNext]_vars

ConcurrentNext ==
    \E r \in Requests :
        \/ Call(r)
        \/ \E i \in 1..Len(requests[r].tasks) : StartFetchOf(r, i)
        \/ \E i \in 1..Len(requests[r].tasks) : CompleteFetchOf(r, i)
        \/ JoinOf(r)
        \/ ProcessOf(r)

\* two calls of mark_px on one event loop
ConcurrentSpec == ConcurrentInit /\ [][ConcurrentNext]_vars

-----------------------------------------------------------------------------
(* The claims.                                                             *)

IsReport == ret.kind = "report"
NLegs == Len(strategy_legs)
SameInstrument(i, j) == strategy_legs[i].instrument = strategy_legs[j].instrument
AllLinesPriced == \A i \in 1..Len(ret.price_details) : ~ret.price_details[i].error

\* the characters of s before its first hyphen
RECURSIVE BeforeHyphen(_)
BeforeHyphen(s) ==
    IF s = <<>> \/ Head(s) = "-" THEN <<>> ELSE <<Head(s)>> \o BeforeHyphen(Tail(s))

\* C1: the report shows a numeric net total if and only if every leg line is
\* priced; with a leg that has no price the report ends with the line
\* 'Net Combo Mark: N/A (Could not fetch price for all legs)', shows no net
\* total and no index line.  In terms of the fetches: the net is numeric when
\* every fetch returned a mark price, and is N/A when some leg's instrument was
\* given a mark price by no fetch.
C1_PartialFailurePolicy ==
    IsReport =>
        /\ Len(ret.price_details) = NLegs
        /\ ret.net.numeric <=> AllLinesPriced
        /\ ~ret.net.numeric => ret.net = NetNotAvailable /\ ret.index_ref = NoIndexLine
        /\ (\A i \in 1..NLegs : results[i].mark_price # Null) => ret.net.numeric
        /\ (\E i \in 1..NLegs : \A j \in 1..NLegs :
                SameInstrument(i, j) => results[j].mark_price = Null)
           => ~ret.net.numeric

\* Two legs of different instruments, the first priced and the second not:
\* one priced line, one error line, and the N/A net line.
C1_Witness ==
    /\ IsReport
    /\ NLegs = 2
    /\ ~SameInstrument(1, 2)
    /\ results[1].mark_price = Num(1)
    /\ results[2].mark_price = Null
    /\ ~ret.price_details[1].error
    /\ ret.price_details[2].error
    /\ ret.net = NetNotAvailable

\* C2: line i of the report is an error line if and only if the fetch issued
\* for leg i returned no mark price, and otherwise shows the mark price that
\* fetch returned, also when two legs name the same instrument.
C2_LegStatusByPosition ==
    IsReport =>
        \A i \in 1..NLegs :
            /\ ret.price_details[i].error <=> results[i].mark_price = Null
            /\ ~ret.price_details[i].error =>
                   ret.price_details[i].price = Fmt4f(results[i].mark_price.v)

\* The case of C3: the first leg's fetch failed, the second leg's fetch
\* returned a mark price and an index price, and a report was returned.
C3_FirstFailsSecondHasIndex ==
    /\ IsReport
    /\ NLegs >= 2
    /\ results[1].mark_price = Null
    /\ results[1].index_price = Null
    /\ results[2].mark_price.t = "num"
    /\ results[2].index_price.t = "num"

\* C3 as stated: in that case the report shows the line 'Index Ref: $N/A'.
C3_IndexRefNAShown ==
    C3_FirstFailsSecondHasIndex => ret.index_ref = IndexLine(NA)

\* C3 as amended: when the first leg's fetch returned no index price and the
\* second leg's fetch returned one, a report never shows the second leg's index
\* price: with every leg line priced it shows 'Index Ref: $N/A', and with an
\* error line it ends with the N/A net line and has no index line.
C3_IndexRefFirstLegOnly ==
    (/\ IsReport
     /\ NLegs >= 2
     /\ results[1].index_price = Null
     /\ results[2].index_price.t = "num")
    => IF AllLinesPriced
       THEN ret.index_ref = IndexLine(NA)
       ELSE ret.index_ref = NoIndexLine /\ ret.net = NetNotAvailable

\* The first leg's fetch failed, the second returned an index price, and the
\* report has no index line.
C3_Witness ==
    /\ C3_FirstFailsSecondHasIndex
    /\ ~SameInstrument(1, 2)
    /\ ret.index_ref = NoIndexLine
    /\ ret.net = NetNotAvailable

\* C4: mark_px returns a report or an error string and never raises.
C4_NeverRaises == ret.kind # "raised"

\* C5: the fetcher returns a triple whose first component is the requested
\* instrument; on a transport error, timeout, non-2xx status, malformed payload
\* or missing 'result' or 'mark_price' both prices are None; otherwise the
\* prices are those of the payload.
C5_FetcherAlwaysReturns ==
    quote # <<>> =>
        /\ Len(quote) = 1
        /\ quote[1].instrument = instrument_name
        /\ response[1].kind \in FailureKinds =>
               quote[1].mark_price = Null /\ quote[1].index_price = Null
        /\ response[1].kind = "ok" =>
               /\ quote[1].mark_price = response[1].mark
               /\ quote[1].index_price =
                      (IF response[1].index = Absent THEN Null ELSE response[1].index)

\* A fetch that timed out returned (instrument, None, None).
C5_Witness ==
    /\ quote # <<>>
    /\ response[1].kind = "timeout"
    /\ quote[1] = Quote(instrument_name, Null, Null)
    /\ instrument_name = FullPut

\* C6: a signed quantity followed by one instrument token that holds no hyphen
\* (as in '+1 BT') is rejected.
C6_IncompleteInstrumentRejected ==
    LET parts == Split(Upper(Strip(leg_string)))
    IN  (/\ parsed_leg # <<>>
         /\ Len(parts) = 2
         /\ parts[1] \in {<<"+","1">>, <<"-","2">>}
         /\ Count(parts[2], "-") = 0)
        => parsed_leg[1].none

\* CURRENCY-EXPIRY-STRIKE-TYPE in upper case: four fields, none empty, the
\* first a currency
Canonical(instrument) ==
    LET fields == SplitOn(instrument, "-")
    IN  /\ Upper(instrument) = instrument
        /\ Len(fields) = 4
        /\ \A i \in 1..4 : fields[i] # <<>>
        /\ fields[1] \in {<<"B","T","C">>, <<"E","T","H">>, <<"U","S","D","C">>}

\* C7: every leg parse_leg_string returns has a canonical instrument.
C7_CanonicalInstrument ==
    (parsed_leg # <<>> /\ ~parsed_leg[1].none) => Canonical(parsed_leg[1].instrument)

\* what each leg string a call can be given parses to
ParsedLegString == [s \in PricerLegStrings |-> parse_leg_string(s)]

\* what leg string i of the call parses to
InputLeg(i) == ParsedLegString[strategy_legs_input[i]]

AllParse == \A i \in 1..Len(strategy_legs_input) : ~InputLeg(i).none

Currency(i) == BeforeHyphen(InputLeg(i).instrument)

MixedCurrencies ==
    AllParse /\ \E i \in 1..Len(strategy_legs_input) : Currency(i) # Currency(1)

FirstOtherCurrency ==
    CHOOSE i \in 1..Len(strategy_legs_input) :
        /\ Currency(i) # Currency(1)
        /\ \A j \in 1..(i - 1) : Currency(j) = Currency(1)

SomeLegInvalid == \E i \in 1..Len(strategy_legs_input) : InputLeg(i).none

FirstInvalid ==
    CHOOSE i \in 1..Len(strategy_legs_input) :
        InputLeg(i).none /\ \A j \in 1..(i - 1) : ~InputLeg(j).none

\* C9: when a leg string does not parse, the call parses no leg string after
\* the first offending one, never reaches the currency check, opens no session
\* and issues no fetch, and returns the error carrying that string, not a
\* report.
C9_FailFastParsing ==
    SomeLegInvalid =>
        /\ n_parsed <= FirstInvalid
        /\ pc \in {"parse", "done"}
        /\ ~(pc = "parse" /\ n_parsed = Len(strategy_legs_input))
        /\ n_fetches = 0
        /\ session = "none"
        /\ pc = "parse" => ret = NoReturn
        /\ pc = "done" =>
               /\ ret = InvalidLegError(strategy_legs_input[FirstInvalid])
               /\ n_parsed = FirstInvalid

\* A valid leg string then an invalid one: the error carries the second, and
\* the leg parsed before it yields no report.
C9_Witness ==
    /\ pc = "done"
    /\ Len(strategy_legs_input) = 2
    /\ SomeLegInvalid
    /\ FirstInvalid = 2
    /\ Len(strategy_legs) = 1
    /\ ret = InvalidLegError(strategy_legs_input[2])

\* the mark price line i of the report shows, read back from its text
ShownMark(i) == CHOOSE m \in 0..MaxPrice : Fmt4f(m) = ret.price_details[i].price

SignedLegPrice(i) ==
    IF strategy_legs[i].side = Sell
    THEN 0 - (ShownMark(i) * strategy_legs[i].quantity)
    ELSE ShownMark(i) * strategy_legs[i].quantity

\* the sum over a set of legs, taken in whatever order
RECURSIVE SumOfLegs(_)
SumOfLegs(S) ==
    IF S = {} THEN 0
    ELSE LET i == CHOOSE x \in S : TRUE
         IN  SignedLegPrice(i) + SumOfLegs(S \ {i})

\* legs of one instrument were returned one mark price
FetchesAgree ==
    \A i, j \in 1..NLegs : SameInstrument(i, j) => results[i].mark_price = results[j].mark_price

\* C10: when every leg is priced, the net total shown is the sum over the legs
\* of mark price times quantity, negated for a sell, in the first leg's
\* currency; the mark price of a leg is the one its fetch returned (when two
\* fetches of one instrument return different prices, the one its line shows).
C10_NetAggregation ==
    (IsReport /\ ret.net.numeric) =>
        /\ ret.net.amount = Fmt4f(SumOfLegs(1..NLegs))
        /\ ret.net.currency = BeforeHyphen(strategy_legs[1].instrument)
        /\ FetchesAgree =>
               \A i \in 1..NLegs : ShownMark(i) = results[i].mark_price.v

\* +1 at mark price 1 and -2 at mark price 2: the net total is -3.0000.
C10_Witness ==
    /\ IsReport
    /\ NLegs = 2
    /\ strategy_legs[1].side = Buy /\ strategy_legs[1].quantity = 1
    /\ strategy_legs[2].side = Sell /\ strategy_legs[2].quantity = 2
    /\ results[1].mark_price = Num(1)
    /\ results[2].mark_price = Num(2)
    /\ ret.net.amount = <<"-","3",".","0","0","0","0">>

\* what the fetch issued for leg i returned, whenever it ended
FetchedOf(i) ==
    completed[CHOOSE k \in 1..Len(completed) : completed[k].leg = i].returned

FetchedByLeg == [i \in 1..NLegs |-> FetchedOf(i)]

\* the legs in the order the fetches ended
CompletionOrder == [k \in 1..Len(completed) |-> completed[k].leg]

\* C11: a report has exactly one line per leg string, and line i shows the
\* side, the quantity and the instrument of leg i; what the call returns is
\* what the per-leg fetch results alone determine, in whatever order the
\* fetches ended.
C11_OrderIndependentReport ==
    /\ IsReport =>
          /\ Len(ret.price_details) = Len(strategy_legs_input)
          /\ \A i \in 1..Len(strategy_legs_input) :
                /\ ret.price_details[i].side =
                       PadRight(Upper(InputLeg(i).side), 4)
                /\ ret.price_details[i].quantity = InputLeg(i).quantity
                /\ ret.price_details[i].instrument =
                       PadRight(InputLeg(i).instrument, 22)
    /\ (pc = "done" /\ session = "closed") =>
          /\ Len(completed) = NLegs
          /\ \A i \in 1..NLegs : \E k \in 1..NLegs : completed[k].leg = i
          /\ ret = ProcessResults(strategy_legs, FetchedByLeg)

\* Two legs of different instruments whose fetches returned different index
\* prices, the second fetch ending before the first: the report shows the
\* first leg on line 1 and the first leg's index price.
C11_Witness ==
    /\ IsReport
    /\ NLegs = 2
    /\ ~SameInstrument(1, 2)
    /\ CompletionOrder = <<2, 1>>
    /\ FetchedOf(1) = Quote(strategy_legs[1].instrument, Num(1), Null)
    /\ FetchedOf(2) = Quote(strategy_legs[2].instrument, Num(2), Num(95123))
    /\ ret.price_details[1].instrument = PadRight(strategy_legs[1].instrument, 22)
    /\ ret.index_ref = IndexLine(NA)

\* the call is past its gather
Joined == pc \in {"process", "done"} /\ session # "none"

\* C12: once gather has returned (and so before any report exists) every
\* fetch the call launched has ended: one fetch was issued per leg, every task
\* is done, each leg's fetch ended exactly once, and the result kept for leg i
\* is the one its own fetch returned, a failure of another fetch
\* notwithstanding.  Until then the call has returned nothing.
C12_JoinAll ==
    /\ (Joined \/ IsReport) =>
          /\ session = "closed"
          /\ n_fetches = NLegs
          /\ Len(tasks) = NLegs
          /\ \A i \in 1..NLegs : tasks[i] = "done"
          /\ Len(completed) = NLegs
          /\ \A i \in 1..NLegs :
                /\ \E k \in 1..NLegs : completed[k].leg = i
                /\ results[i] = FetchedOf(i)
                /\ results[i].instrument = strategy_legs[i].instrument
    /\ pc \in {"open", "gather", "process"} => ret = NoReturn

\* The first leg's fetch failed first; the second leg's fetch ended after it
\* with a mark price, and the report shows that price on line 2.
C12_Witness ==
    /\ IsReport
    /\ NLegs = 2
    /\ ~SameInstrument(1, 2)
    /\ CompletionOrder = <<1, 2>>
    /\ FetchedOf(1).mark_price = Null
    /\ FetchedOf(2).mark_price = Num(2)
    /\ ret.price_details[1].error
    /\ ret.price_details[2].price = Fmt4f(2)

\* C13: while a fetch of the call is still to be started, the next one can be
\* started at once, whether or not the fetches started before it have ended;
\* so all the fetches of a call can be under way together.
C13_ConcurrentDispatch ==
    (pc = "gather" /\ \E i \in 1..Len(tasks) : tasks[i] = "pending")
    => ENABLED (\E i \in 1..Len(tasks) : StartFetch(i))

\* Two legs, both fetches issued and neither ended.
C13_Witness ==
    /\ pc = "gather"
    /\ NLegs = 2
    /\ \A i \in 1..NLegs : tasks[i] = "running"
    /\ n_fetches = 2
    /\ completed = <<>>

\* what the leg strings of a list parse to
LegsOf(input) == [i \in 1..Len(input) |-> ParsedLegString[input[i]]]

FirstIn(S) == CHOOSE i \in S : \A j \in S : i <= j

\* What one call of mark_px on its own returns for a list of leg strings and
\* the results of its fetches, leg by leg.
AloneReturn(input, res) ==
    LET legs == LegsOf(input)
        invalid == {i \in 1..Len(input) : legs[i].none}
        other == {i \in 1..Len(input) :
                     BeforeHyphen(legs[i].instrument) # BeforeHyphen(legs[1].instrument)}
    IN  IF invalid # {} THEN InvalidLegError(input[FirstIn(invalid)])
        ELSE IF input = <<>> THEN NoLegsError
        ELSE IF other # {}
        THEN MixedCurrencyError(BeforeHyphen(legs[1].instrument),
                                BeforeHyphen(legs[FirstIn(other)].instrument))
        ELSE ProcessResults(legs, res)

\* C14: of two calls of mark_px whose fetches interleave, each returns what it
\* would return on its own for its leg strings and the results of its own
\* fetches; the legs a call holds are those of its own leg strings, and the
\* results it holds are those of fetches of its own legs.
C14_RequestIsolation ==
    \A r \in DOMAIN requests :
        LET q == requests[r]
        IN  /\ q.pc = "done" => q.ret = AloneReturn(q.strategy_legs_input, q.results)
            /\ q.pc # "done" => q.ret = NoReturn
            /\ q.pc \in {"gather", "process"} =>
                   /\ q.strategy_legs = LegsOf(q.strategy_legs_input)
                   /\ Len(q.results) = Len(q.strategy_legs)
                   /\ \A i \in 1..Len(q.tasks) :
                          q.tasks[i] = "done" =>
                              q.results[i].instrument = q.strategy_legs[i].instrument

\* Call a bought the put and was returned the mark price 1; call b sold the
\* same put and was returned 2, and held that result when a built its report.
\* Each report shows its own call's price.
C14_Witness ==
    /\ requests # <<>>
    /\ requests["a"].pc = "done" /\ requests["b"].pc = "done"
    /\ requests["a"].strategy_legs_input = <<BuyPut>>
    /\ requests["b"].strategy_legs_input = <<SellPut>>
    /\ requests["a"].overlapped
    /\ requests["a"].results[1].mark_price = Num(1)
    /\ requests["b"].results[1].mark_price = Num(2)
    /\ requests["a"].ret.kind = "report"
    /\ requests["a"].ret.price_details[1].price = Fmt4f(1)
    /\ requests["a"].ret.net.amount = Fmt4f(1)
    /\ requests["b"].ret.price_details[1].price = Fmt4f(2)
    /\ requests["b"].ret.net.amount = Fmt4f(0 - 4)

FullReport == IsReport /\ ret.net.numeric
PartialFailureReport == IsReport /\ ~ret.net.numeric
ErrorString == ret.kind = "error"

\* C15: a call that has ended has returned exactly one of a full report, a
\* partial-failure report and an error string.
C15_ReturnsReportOrError ==
    pc = "done" =>
        \/ FullReport /\ ~PartialFailureReport /\ ~ErrorString
        \/ PartialFailureReport /\ ~FullReport /\ ~ErrorString
        \/ ErrorString /\ ~FullReport /\ ~PartialFailureReport

Tokens == Split(Upper(Strip(leg_string)))
QtyToken == Tokens[1]
WellFormed == Len(Tokens) \in {2, 4, 5}

\* the instrument as joined from its tokens
JoinedInstrument == Join(Tail(Tokens), "-")

Unsigned == Head(QtyToken) \notin {"+", "-"}

\* the call has been made and has returned a leg
ReturnedLeg == parsed_leg # <<>> /\ ~parsed_leg[1].none
ReturnedError == parsed_leg # <<>> /\ parsed_leg[1].none

\* the value of a token made of digits
RECURSIVE ValueOf(_)
ValueOf(digits) ==
    IF digits = <<>> THEN 0
    ELSE 10 * ValueOf(SubSeq(digits, 1, Len(digits) - 1))
         + (CHOOSE d \in 0..9 : DigitChars[d + 1] = digits[Len(digits)])

\* C17: a quantity token without a sign is read as a buy of that quantity
\* when it is all digits and the instrument, as joined from its tokens and
\* before 'BTC-' is put in front, holds two hyphens or more (a buy of zero
\* being then rejected as any quantity of zero is); every other leg string with
\* an unsigned quantity token is an error.
C17_SignAutoCorrection ==
    (parsed_leg # <<>> /\ Len(Tokens) >= 2 /\ Unsigned) =>
        IF WellFormed /\ IsDigit(QtyToken) /\ Count(JoinedInstrument, "-") >= 2
        THEN IF ValueOf(QtyToken) >= 1
             THEN /\ ReturnedLeg
                  /\ parsed_leg[1].side = Buy
                  /\ parsed_leg[1].quantity = ValueOf(QtyToken)
             ELSE ReturnedError
        ELSE ReturnedError

\* '2 26SEP25 95 P' is returned as a buy of 2.
C17_Witness ==
    /\ leg_string = JoinWords(<<<<"2">>, Expiry, <<"9","5">>, <<"P">>>>)
    /\ ReturnedLeg
    /\ parsed_leg[1].side = Buy
    /\ parsed_leg[1].quantity = 2

KnownPrefixes == {<<"B","T","C","-">>, <<"E","T","H","-">>, <<"U","S","D","C","-">>}

HasKnownPrefix(instrument) == \E c \in KnownPrefixes : StartsWith(instrument, c)

\* the joined instrument with 'BTC-' in front when it names no currency
AfterDefault ==
    IF HasKnownPrefix(JoinedInstrument) THEN JoinedInstrument
    ELSE <<"B","T","C","-">> \o JoinedInstrument

Fields == SplitOn(AfterDefault, "-")

\* a BTC instrument of four fields whose strike is one to three digits
Abbreviated ==
    /\ StartsWith(AfterDefault, <<"B","T","C","-">>)
    /\ Len(Fields) = 4
    /\ Fields[3] # <<>>
    /\ Len(Fields[3]) <= 3
    /\ \A i \in 1..Len(Fields[3]) : Fields[3][i] \in Digits

\* C18: the instrument of a returned leg is the instrument after the currency
\* default with '000' appended to its strike field when that instrument
\* starts with 'BTC-', has exactly four fields and a strike of one to three
\* digits; in every other case it is the instrument after the currency
\* default, unchanged.
C18_StrikeExpansion ==
    ReturnedLeg =>
        parsed_leg[1].instrument =
            IF Abbreviated
            THEN Fields[1] \o <<"-">> \o Fields[2] \o <<"-">> \o Fields[3]
                 \o <<"0","0","0">> \o <<"-">> \o Fields[4]
            ELSE AfterDefault

\* '-2 26SEP25 95 P' is returned as BTC-26SEP25-95000-P.
C18_Witness ==
    /\ leg_string = JoinWords(<<<<"-","2">>, Expiry, <<"9","5">>, <<"P">>>>)
    /\ ReturnedLeg
    /\ Abbreviated
    /\ parsed_leg[1].instrument = FullPut

\* C19: the instrument of a returned leg starts with 'BTC-', 'ETH-' or
\* 'USDC-'.  When the joined instrument starts with one of them the returned
\* one starts with the same and has as many fields; otherwise it is the joined
\* instrument with the field 'BTC' put in front.  (The strike field may have
\* gained its three zeroes.)
C19_CurrencyDefault ==
    ReturnedLeg =>
        LET returned == SplitOn(parsed_leg[1].instrument, "-")
            typed == SplitOn(JoinedInstrument, "-")
            expected == IF HasKnownPrefix(JoinedInstrument) THEN typed
                        ELSE <<<<"B","T","C">>>> \o typed
        IN  /\ HasKnownPrefix(parsed_leg[1].instrument)
            /\ \A c \in KnownPrefixes :
                   StartsWith(JoinedInstrument, c) => StartsWith(parsed_leg[1].instrument, c)
            /\ Len(returned) = Len(expected)
            /\ \A k \in 1..Len(expected) :
                   \/ returned[k] = expected[k]
                   \/ k = 3 /\ returned[k] = expected[k] \o <<"0","0","0">>

\* '+1 26SEP25-95000-P' is returned as BTC-26SEP25-95000-P.
C19_Witness ==
    /\ leg_string = JoinWords(<<<<"+","1">>,
                       <<"2","6","S","E","P","2","5","-","9","5","0","0","0","-","P">>>>)
    /\ ReturnedLeg
    /\ ~HasKnownPrefix(JoinedInstrument)
    /\ parsed_leg[1].instrument = FullPut

\* the quantity token, with the '+' of the auto-correction when it had no sign
SignedToken == IF Unsigned THEN <<"+">> \o QtyToken ELSE QtyToken

\* what int() makes of the token after its sign
Magnitude == PyInt(Tail(SignedToken))

\* C20: a returned leg is a buy when the quantity token (auto-corrected or
\* not) starts with '+' and a sell when it starts with '-', and its quantity is
\* the integer after the sign, at least 1; a token whose integer is zero, or
\* that holds no integer after its sign, yields an error.
C20_SideAndPositiveQuantity ==
    /\ ReturnedLeg =>
          /\ Head(SignedToken) = "+" => parsed_leg[1].side = Buy
          /\ Head(SignedToken) = "-" => parsed_leg[1].side = Sell
          /\ parsed_leg[1].quantity \in Nat
          /\ parsed_leg[1].quantity >= 1
          /\ Magnitude.ok
          /\ parsed_leg[1].quantity = Magnitude.v
          /\ IsDigit(Tail(SignedToken)) =>
                 parsed_leg[1].quantity = ValueOf(Tail(SignedToken))
    /\ (parsed_leg # <<>> /\ Len(Tokens) >= 2) =>
          /\ ~Magnitude.ok => ReturnedError
          /\ (Magnitude.ok /\ Magnitude.v = 0) => ReturnedError

\* '-2 BTC-26SEP25-95000-P' is returned as a sell of 2.
C20_Witness ==
    /\ leg_string = JoinWords(<<<<"-","2">>, FullPut>>)
    /\ ReturnedLeg
    /\ parsed_leg[1].side = Sell
    /\ parsed_leg[1].quantity = 2

\* '<sign><quantity> <instrument>' of a leg
Rendering(leg) ==
    (IF leg.side = Buy THEN <<"+">> ELSE <<"-">>)
    \o NatStr(leg.quantity) \o <<" ">> \o leg.instrument

\* C21: what parse_leg_string returns for a string is what it returns for the
\* string trimmed and upper-cased, and the rendering
\* '<sign><quantity> <instrument>' of a returned leg parses to that same leg.
C21_PureAndIdempotent ==
    parsed_leg # <<>> =>
        /\ parsed_leg[1] = parse_leg_string(Upper(Strip(leg_string)))
        /\ ~parsed_leg[1].none =>
               parse_leg_string(Rendering(parsed_leg[1])) = parsed_leg[1]

\* ' -2\t26sep25\t95\tp  ' is returned as the sell of 2 BTC-26SEP25-95000-P,
\* whose rendering differs from the string typed.
C21_Witness ==
    /\ leg_string = <<" ">> \o Lower(Join(<<<<"-","2">>, Expiry, <<"9","5">>, <<"P">>>>, "\t"))
                    \o <<" ", " ">>
    /\ ReturnedLeg
    /\ Rendering(parsed_leg[1]) = JoinWords(<<<<"-","2">>, FullPut>>)
    /\ Rendering(parsed_leg[1]) # Upper(Strip(leg_string))

-----------------------------------------------------------------------------
(* Claims C22..C24: the unanswered-message monitor.                        *)

\* the group's id is a row of Monitor_List.csv
Listed(c) == StrId(c) \in MainBotData.monitor_ids
\* the user's id is a row of the allowed-user file
AllowedUser(u) == StrId(u) \in MainBotData.allowed_user_ids
\* the message a step of monitor_group_chats handled
Handled == messages'[Len(messages')]
\* an allowed user posted in chat c less than five minutes before time t
AdminPostedWithin(c, t) ==
    \E i \in DOMAIN messages :
        /\ messages[i].chat = c
        /\ AllowedUser(messages[i].from_user)
        /\ t - messages[i].date < FiveMinutes
\* the message an alert or a job is about
MessageOf(name) == messages[name[3]]

\* C22: a message in a listed group, from a user who is neither the bot nor
\* an allowed user, arriving when no allowed user posted in that chat within
\* the last five minutes, schedules an alert job for that chat; a message in
\* a group that is not listed schedules nothing.
C22_UnansweredScheduling ==
    [][messages' # messages =>
          /\ ( /\ Listed(Handled.chat)
               /\ Handled.from_user # BotUser
               /\ ~AllowedUser(Handled.from_user)
               /\ ~AdminPostedWithin(Handled.chat, Handled.date) )
             => \E job \in job_queue' :
                    /\ job.chat_id = Handled.chat
                    /\ job.name[3] = Handled.message_id
          /\ ~Listed(Handled.chat) => job_queue' = job_queue]_vars

\* C23: an alert is sent only when its message has gone five minutes without
\* a message of an allowed user, and the delay of every scheduled job is the
\* five-minute window of the admin-activity check.
C23_AlertAfterFiveMinutes ==
    /\ \A i \in DOMAIN alerts :
          alerts[i].sent - MessageOf(alerts[i].name).date >= FiveMinutes
    /\ \A job \in job_queue :
          job.when - MessageOf(job.name).date = FiveMinutes

\* C24: after monitor_group_chats handles a message of an allowed user in a
\* listed chat, the chat has no scheduled job, chat_data holds no
\* 'unanswered_job', and last_admin_message_time is the date of the message;
\* no alert is sent for a message an allowed user answered before the job
\* fired.
C24_AdminReplyCancels ==
    [][/\ ( /\ messages' # messages
            /\ Listed(Handled.chat)
            /\ AllowedUser(Handled.from_user) )
          => /\ \A job \in job_queue' : job.chat_id # Handled.chat
             /\ chat_data'[Handled.chat].unanswered_job = None
             /\ chat_data'[Handled.chat].last_admin_message_time = <<Handled.date>>
       /\ Len(alerts') > Len(alerts) =>
             LET alert == alerts'[Len(alerts')]
             IN  \A k \in DOMAIN messages :
                     ~ /\ k > alert.name[3]
                       /\ messages[k].chat = alert.chat_id
                       /\ AllowedUser(messages[k].from_user)]_vars

-----------------------------------------------------------------------------
(* Claim C25: the cooldown of the phone calls.                             *)

\* C25: whatever the interleaving of the calls of send_twilio_call, two
\* phone calls to one number are at least the five-minute cooldown apart.
C25_CallCooldown ==
    \A i, j \in DOMAIN calls :
        (i < j /\ calls[i].to = calls[j].to)
            => calls[j].at - calls[i].at >= CALL_COOLDOWN

-----------------------------------------------------------------------------
(* Claims C26, C27: the fetches and the session of a request.              *)

\* the legs whose fetch was issued
Issued == {i \in 1..Len(tasks) : tasks[i] # "pending"}

\* C26: a request that passed parsing and validation has one task per leg
\* string it was given; the fetches issued so far are those of the first legs
\* in input order, each one for its own leg's instrument; and when gather has
\* returned their number is the number of legs, legs naming one instrument
\* included.
C26_OneFetchPerLeg ==
    session # "none" =>
        /\ Len(tasks) = Len(strategy_legs_input)
        /\ n_fetches = Cardinality(Issued)
        /\ Issued = 1..n_fetches
        /\ \A k \in 1..Len(completed) :
              /\ completed[k].leg \in Issued
              /\ completed[k].returned.instrument =
                     strategy_legs[completed[k].leg].instrument
        /\ pc \in {"process", "done"} => n_fetches = Len(strategy_legs_input)

\* Two legs name the same put: two fetches were issued, and they ended
\* differently.
C26_Witness ==
    /\ pc = "done"
    /\ IsReport
    /\ NLegs = 2
    /\ SameInstrument(1, 2)
    /\ n_fetches = 2
    /\ Len(completed) = 2
    /\ FetchedOf(1).mark_price = Null
    /\ FetchedOf(2).mark_price # Null

\* C27: a call has a session only once its leg strings have all parsed and
\* name one currency; its fetches run only while its session is open; the
\* session is closed before the call processes its results and returns,
\* whether or not fetches failed, and a call that returns an error never had
\* one; two calls never hold the same session.
C27_SessionScoping ==
    /\ \A r \in DOMAIN requests :
          LET q == requests[r]
          IN  /\ q.session # "none" =>
                    /\ q.strategy_legs # <<>>
                    /\ Len(q.strategy_legs) = Len(q.strategy_legs_input)
                    /\ FirstMismatch(q.strategy_legs) = 0
              /\ q.session = "open" <=> q.pc = "gather"
              /\ \A i \in 1..Len(q.tasks) :
                    q.tasks[i] = "running" => q.session = "open"
              /\ q.session = "closed" =>
                    \A i \in 1..Len(q.tasks) : q.tasks[i] = "done"
              /\ q.pc \in {"process", "done"} => q.session \in {"none", "closed"}
              /\ q.pc = "done" =>
                    (q.session = "none" <=> q.ret.kind = "error")
    /\ \A r1, r2 \in DOMAIN requests :
          ( /\ r1 # r2
            /\ requests[r1].session # "none"
            /\ requests[r2].session # "none" )
          => requests[r1].session_id # requests[r2].session_id

\* Both calls have a fetch under way, each in its own open session; a fetch
\* of call a has already failed.
C27_Witness ==
    /\ requests # <<>>
    /\ requests["a"].session = "open" /\ requests["b"].session = "open"
    /\ requests["a"].session_id # requests["b"].session_id
    /\ \E i \in 1..Len(requests["a"].tasks) : requests["a"].tasks[i] = "running"
    /\ \E i \in 1..Len(requests["b"].tasks) : requests["b"].tasks[i] = "running"
    /\ \E i \in 1..Len(requests["a"].tasks) :
          /\ requests["a"].tasks[i] = "done"
          /\ requests["a"].results[i].mark_price = Null

-----------------------------------------------------------------------------
(* Claims C28, C29: the tokens of a leg string.                            *)

\* the leg string with its instrument tokens joined by '-' into one token
Hyphenated == JoinWords(<<QtyToken, JoinedInstrument>>)

\* C28: a leg string with three or four instrument tokens after the quantity
\* token parses to what the string with those tokens joined by '-' parses to;
\* a string with no token or one, or with two, five or more instrument
\* tokens, yields an error.
C28_SpacedEqualsHyphenated ==
    parsed_leg # <<>> =>
        /\ Len(Tokens) \in {4, 5} => parsed_leg[1] = parse_leg_string(Hyphenated)
        /\ (Len(Tokens) < 2 \/ Len(Tokens) = 3 \/ Len(Tokens) >= 6)
               => parsed_leg[1].none

\* '1 BTC 26SEP25 95000 P' parsed to the leg that '1 BTC-26SEP25-95000-P'
\* parses to.
C28_Witness ==
    /\ leg_string = JoinWords(<<<<"1">>, <<"B","T","C">>, Expiry,
                                <<"9","5","0","0","0">>, <<"P">>>>)
    /\ Hyphenated = JoinWords(<<<<"1">>, FullPut>>)
    /\ Hyphenated # leg_string
    /\ parsed_leg = <<Leg(FullPut, Buy, 1)>>

\* C29: a leg is returned only when the quantity token, after the sign
\* auto-correction, is one '+' or '-' followed by decimal digits only.
C29_StrictQuantityToken ==
    ReturnedLeg =>
        /\ Head(SignedToken) \in {"+", "-"}
        /\ IsDigit(Tail(SignedToken))

-----------------------------------------------------------------------------
(* Claim C30: the /px conversation.                                        *)

\* what the step of a handler added to the log
Step == replies'[Len(replies')]
\* the call of mark_px a step made
PxCall == px_calls'[Len(px_calls')]
\* the characters of a text that are neither blanks nor line ends
RECURSIVE Inked(_)
Inked(text) ==
    IF text = <<>> THEN <<>>
    ELSE IF Head(text) \in Whitespace \cup {"\n"} THEN Inked(Tail(text))
    ELSE <<Head(text)>> \o Inked(Tail(text))
\* the lines of a text end to end
RECURSIVE Concat(_)
Concat(lines) == IF lines = <<>> THEN <<>> ELSE Head(lines) \o Concat(Tail(lines))
\* no line of the text holds anything but blanks
AllBlank(text) == Inked(text) = <<>>

\* C30: mark_px is called only in state GETTING_LEGS, with a non-empty list
\* of non-empty trimmed lines that follow the order of the message; a
\* message with no non-blank line leaves the state GETTING_LEGS and calls
\* nothing; once a result has been sent, or a command has been handled in
\* state GETTING_LEGS, the conversation has ended.
C30_PxConversation ==
    [][n_updates' # n_updates =>
          /\ px_calls' # px_calls =>
                /\ conversations.px = GETTING_LEGS
                /\ PxCall.strategy_legs_input # <<>>
                /\ \A i \in DOMAIN PxCall.strategy_legs_input :
                      LET line == PxCall.strategy_legs_input[i]
                      IN  /\ line # <<>>
                          /\ Strip(line) = line
                          /\ \A k \in DOMAIN line : line[k] # "\n"
                /\ Inked(Concat(PxCall.strategy_legs_input)) = Inked(Step.text)
          /\ ( /\ conversations.px = GETTING_LEGS
               /\ ~IsCommand(Step.text)
               /\ AllBlank(Step.text) )
             => /\ px_calls' = px_calls
                /\ conversations'.px = GETTING_LEGS
          /\ (\E k \in DOMAIN Step.sent : Step.sent[k] = "result")
             => conversations'.px = END
          /\ (conversations.px = GETTING_LEGS /\ IsCommand(Step.text))
             => conversations'.px = END]_vars

-----------------------------------------------------------------------------
(* Claims C31..C34: the pending job of a chat and the cleanup of the       *)
(* callback.                                                               *)

\* the handler went past line 80 for the message it handled
PastLine80 ==
    /\ IntId(Handled.chat) \in bot_data.monitor_ids
    /\ Handled.from_user # BotUser
\* the time of the last allowed-user message chat_data holds for the chat
LastAdminTime == chat_data[Handled.chat].last_admin_message_time
\* the message handled is one of a user who is not allowed, and no admin
\* activity within five minutes is on record
Qualifying ==
    /\ PastLine80
    /\ IntId(Handled.from_user) \notin bot_data.allowed_user_ids
    /\ LastAdminTime = None \/ Handled.date - LastAdminTime[1] >= FiveMinutes

\* C31: a chat has at most one scheduled job, and chat_data['unanswered_job']
\* of the chat is that job; a qualifying message of a user who is not allowed
\* leaves as the only job of the chat the one made for that message, due
\* the delay after it, whatever job was scheduled before.
C31_OnePendingAlert ==
    [][/\ \A c \in Chats :
             /\ Cardinality({job \in job_queue' : job.chat_id = c}) <= 1
             /\ \A job \in job_queue' :
                   job.chat_id = c => chat_data'[c].unanswered_job = <<job>>
       /\ (messages' # messages /\ Qualifying) =>
             {job \in job_queue' : job.chat_id = Handled.chat}
                 = { [name |-> <<"unanswered", Handled.chat, Handled.message_id>>,
                      chat_id |-> Handled.chat,
                      when |-> Handled.date + JobDelay] }]_vars

\* Two messages of the member arrived before any job fired: the job of the
\* first is gone and the job of the second is the only one.
C31_Witness ==
    /\ Len(messages) = 2
    /\ messages[1].chat = Group /\ messages[1].from_user = Member
    /\ messages[2].chat = Group /\ messages[2].from_user = Member
    /\ messages[1].date = 0 /\ messages[2].date = JobDelay
    /\ alerts = <<>>
    /\ Cardinality(job_queue) = 1
    /\ \A job \in job_queue :
          /\ job.name[3] = 2
          /\ job.when = JobDelay + JobDelay
          /\ chat_data[Group].unanswered_job = <<job>>

\* C32: a message of a user who is not allowed, in a listed chat, less than
\* five minutes after the last allowed-user message on record, changes
\* neither chat_data nor the job queue.
C32_RecentAdminSuppresses ==
    [][( /\ messages' # messages
         /\ Listed(Handled.chat)
         /\ Handled.from_user # BotUser
         /\ ~AllowedUser(Handled.from_user)
         /\ LastAdminTime # None
         /\ Handled.date - LastAdminTime[1] < FiveMinutes )
       => /\ chat_data' = chat_data
          /\ job_queue' = job_queue]_vars

\* The admin posted, the member posted at once after: the admin's time is on
\* record, and no job was scheduled.
C32_Witness ==
    /\ Len(messages) = 2
    /\ messages[1].chat = Group /\ messages[1].from_user = Admin
    /\ messages[2].chat = Group /\ messages[2].from_user = Member
    /\ messages[2].date - messages[1].date < FiveMinutes
    /\ chat_data[Group].last_admin_message_time = <<messages[1].date>>
    /\ chat_data[Group].unanswered_job = None
    /\ job_queue = {}

\* the callbacks that ended in a step
Ended == running \ running'

\* C33: a callback that ends while chat_data['unanswered_job'] names another
\* job leaves chat_data as it is; the entry is deleted only by the callback
\* of the job it names.
C33_CleanupKeepsNewerJob ==
    [][\A job \in Ended :
          LET entry == chat_data[job.chat_id].unanswered_job
          IN  /\ (entry # None /\ entry[1].name # job.name)
                 => chat_data' = chat_data
              /\ chat_data' # chat_data
                 => /\ entry # None
                    /\ entry[1].name = job.name
                    /\ chat_data'[job.chat_id].unanswered_job = None]_vars

\* The callback of the first message's job ended after the second message
\* had been scheduled: it kept the entry, which names the second job, still
\* scheduled.
C33_Witness ==
    /\ Len(alerts) = 1
    /\ alerts[1].name[3] = 1
    /\ alerts[1].returned = "kept a newer entry"
    /\ running = {}
    /\ chat_data[Group].unanswered_job # None
    /\ chat_data[Group].unanswered_job[1].name[3] = 2
    /\ chat_data[Group].unanswered_job[1] \in job_queue

\* C34: once a callback has returned, chat_data holds no 'unanswered_job'
\* entry naming the job that fired, whatever path the callback took.
C34_FiredJobCleanedUp ==
    \A i \in DOMAIN alerts :
        alerts[i].returned # "not yet" =>
            LET entry == chat_data[alerts[i].chat_id].unanswered_job
            IN  entry = None \/ entry[1].name # alerts[i].name


-----------------------------------------------------------------------------
(* Claims C35, C36: the /send conversation.                                *)

\* what the handler of the step left
Taken == last_handled'[1]

\* the id of user u, as a str, is one of the allowed-user list
OnAllowedList(u) ==
    \E i \in DOMAIN ALLOWED_USER_IDS : ALLOWED_USER_IDS[i] = StrId(u)

RECURSIVE RaisedIds(_)
\* the groups whose send raised, in the order of the sends
RaisedIds(sends) ==
    IF sends = <<>> THEN <<>>
    ELSE IF Head(sends).raised
         THEN <<Head(sends).call.chat_id>> \o RaisedIds(Tail(sends))
         ELSE RaisedIds(Tail(sends))

\* the list the button of the step names
Targets(h) ==
    IF h.update = "send_large_only" THEN GROUP_IDS_LARGE ELSE GROUP_IDS_ALL

=============================================================================
